---- MODULE Spec2Model ----
(***************************************************************************)
(* A model of the file-editing engine of openhands-aci: the large-file     *)
(* operations of editor/file_ops.py (find_in_file, replace_in_file), the   *)
(* encoding cache of editor/encoding.py, and the command dispatcher        *)
(* (OHEditor) with its workspace check and undo history.                   *)
(*                                                                         *)
(* Text is a sequence of one-character strings.  A file system is a        *)
(* function from the canonical paths of Files to a content or NoFile.      *)
(***************************************************************************)
EXTENDS Integers, Sequences, FiniteSets, TLC

(***************************************************************************)
(* Bounds of the model.                                                    *)
(***************************************************************************)
MaxFileLen == 4
MaxOldLen == 2
MaxNewLen == 1
MaxEdits == 3
MaxMtime == 2
MaxStarts == 3
MaxLine == 4

(***************************************************************************)
(* Text.                                                                   *)
(***************************************************************************)
NL == "\n"
CR == "\r"
Alphabet == {"a", NL, CR}

StrUpTo(n) == UNION {[1..k -> Alphabet] : k \in 0..n}

\* The content of a path that does not exist, and Python's None.
NoFile == <<"<no file>">>
None == [kind |-> "None"]

RECURSIVE Flatten(_)
Flatten(ss) == IF ss = <<>> THEN <<>> ELSE Head(ss) \o Flatten(Tail(ss))

IsPrefix(p, s) == Len(p) <= Len(s) /\ SubSeq(s, 1, Len(p)) = p
IsSuffix(p, s) == Len(p) <= Len(s) /\ SubSeq(s, Len(s) - Len(p) + 1, Len(s)) = p
Contains(s, sub) ==
    \E i \in 0..(Len(s) - Len(sub)) : SubSeq(s, i + 1, i + Len(sub)) = sub
EndsWithNL(s) == Len(s) > 0 /\ s[Len(s)] = NL

(***************************************************************************)
(* Characters and bytes.  An ASCII character and its byte are written the  *)
(* same.  Beyond ASCII the model has the Cyrillic letter U+043F, which is  *)
(* the byte EF in windows-1251 and the bytes D0 BF in UTF-8, and what else *)
(* these bytes decode to (EF BF BF is U+FFFF in UTF-8).                    *)
(***************************************************************************)
Ascii == {"a", "b", "c", NL, CR}
TextAlphabet == {"a", "U+043F", NL}

Utf8Char(c) ==
    CASE c = "U+043F" -> <<"xD0", "xBF">>
      [] c = "U+0420" -> <<"xD0", "xA0">>
      [] c = "U+0457" -> <<"xD1", "x97">>
      [] c = "U+FFFF" -> <<"xEF", "xBF", "xBF">>
      [] OTHER -> <<c>>

Cp1251Char(c) ==
    CASE c = "U+043F" -> <<"xEF">>
      [] c = "U+0420" -> <<"xD0">>
      [] c = "U+0457" -> <<"xBF">>
      [] OTHER -> <<c>>

\* str.encode(encoding)
Encode(encoding, text) ==
    Flatten([i \in 1..Len(text) |->
                IF encoding = "windows-1251" THEN Cp1251Char(text[i])
                ELSE Utf8Char(text[i])])

\* bytes.decode('utf-8'): the text, or no text when a byte sequence is not
\* UTF-8 (UnicodeDecodeError).
RECURSIVE Utf8Decode(_)
Utf8Decode(bytes) ==
    IF bytes = <<>> THEN [ok |-> TRUE, text |-> <<>>]
    ELSE IF bytes[1] \in Ascii
    THEN LET r == Utf8Decode(Tail(bytes))
         IN  [ok |-> r.ok, text |-> <<bytes[1]>> \o r.text]
    ELSE IF Len(bytes) >= 2 /\ bytes[1] = "xD0" /\ bytes[2] \in {"xBF", "xA0"}
    THEN LET r == Utf8Decode(SubSeq(bytes, 3, Len(bytes)))
         IN  [ok |-> r.ok,
              text |-> <<IF bytes[2] = "xBF" THEN "U+043F" ELSE "U+0420">> \o r.text]
    ELSE IF Len(bytes) >= 3 /\ SubSeq(bytes, 1, 3) = <<"xEF", "xBF", "xBF">>
    THEN LET r == Utf8Decode(SubSeq(bytes, 4, Len(bytes)))
         IN  [ok |-> r.ok, text |-> <<"U+FFFF">> \o r.text]
    ELSE [ok |-> FALSE, text |-> <<>>]

\* bytes.decode('windows-1251'): every byte is a character.
Cp1251Decode(bytes) ==
    [i \in 1..Len(bytes) |->
        CASE bytes[i] = "xEF" -> "U+043F"
          [] bytes[i] = "xD0" -> "U+0420"
          [] bytes[i] = "xBF" -> "U+0457"
          [] OTHER -> bytes[i]]

Decode(encoding, bytes) ==
    IF encoding = "windows-1251"
    THEN [ok |-> TRUE, text |-> Cp1251Decode(bytes)]
    ELSE Utf8Decode(bytes)

\* The encoding of open(path, 'r') and open(path, 'w') without an encoding
\* argument: the locale's, UTF-8.
LocaleEncoding == "utf-8"

(***************************************************************************)
(* Paths.  A path is a sequence of segment names below "/"; temp_path is   *)
(* path.with_suffix(path.suffix + '.tmp'), which appends ".tmp" to the     *)
(* last segment.                                                           *)
(***************************************************************************)
TmpName(n) ==
    CASE n = "f" -> "f.tmp"
      [] n = "f.tmp" -> "f.tmp.tmp"
      [] n = "out" -> "out.tmp"
      [] n = "out.tmp" -> "out.tmp.tmp"
      [] OTHER -> "other.tmp"

temp_path(p) == [p EXCEPT ![Len(p)] = TmpName(@)]

Files ==
    { <<"ws", "f">>, <<"ws", "f.tmp">>, <<"ws", "f.tmp.tmp">>,
      <<"out">>, <<"out.tmp">>, <<"out.tmp.tmp">> }

TargetPath == <<"ws", "f">>

(***************************************************************************)
(* file_ops.py                                                             *)
(***************************************************************************)
MAX_FILE_SIZE == 1073741824

\* magic.from_file(path, mime=True) on a file of these characters: libmagic
\* names an empty file inode/x-empty and a one-byte file
\* application/octet-stream; two or more bytes of text are text/plain.
SniffMime(content) ==
    IF Len(content) = 0 THEN "inode/x-empty"
    ELSE IF Len(content) = 1 THEN "application/octet-stream"
    ELSE "text/plain"

\* A size check that also rejects a file of exactly MAX_FILE_SIZE bytes.
TooLarge_AtLeast(size) == size >= MAX_FILE_SIZE

\* size > MAX_FILE_SIZE
TooLarge(size) == size > MAX_FILE_SIZE

\* mime.startswith('text/'), over the types libmagic names here
TextMimes == {"text/plain", "text/x-c"}
IsTextMime(mime) == mime \in TextMimes

\* validate_text_file: "ok" or the exception it raises.
validate_text_file(fsys, p) ==
    IF fsys[p] = NoFile THEN "FileNotFoundError"
    ELSE IF TooLarge(Len(fsys[p])) THEN "FileTooLargeError"
    ELSE IF ~IsTextMime(SniffMime(fsys[p])) THEN "InvalidFileTypeError"
    ELSE "ok"

\* mm.find(sub, start) for a non-empty sub: the least position >= start
\* (0-based) where sub occurs, or -1.
MmFind(content, sub, start) ==
    LET hits == {i \in start..(Len(content) - Len(sub)) :
                    SubSeq(content, i + 1, i + Len(sub)) = sub}
    IN  IF hits = {} THEN -1 ELSE CHOOSE i \in hits : \A j \in hits : i <= j

\* mm.read(pos).count(b'\n') + 1
LineNumAt(content, pos) == Cardinality({j \in 1..pos : content[j] = NL}) + 1

\* mm.seek(pos); matched = mm.read(len(search_str)), with the line ending
\* when mm.read(1) is one: n is the length of search_str in characters, not
\* that of its bytes.
MatchedAt(content, n, pos) ==
    LET last == IF pos + n <= Len(content) THEN pos + n ELSE Len(content)
        matched == SubSeq(content, pos + 1, last)
    IN  IF last + 1 <= Len(content) /\ content[last + 1] = NL
        THEN matched \o <<NL>> ELSE matched

\* The loop of find_in_file from start_pos on: the list of occurrences.
\* sub is search_str.encode(), n is len(search_str).
RECURSIVE Occurrences(_, _, _, _)
Occurrences(content, sub, n, start_pos) ==
    LET pos == MmFind(content, sub, start_pos)
    IN  IF pos = -1 THEN <<>>
        ELSE <<[line |-> LineNumAt(content, pos),
                matched |-> MatchedAt(content, n, pos),
                pos |-> pos]>>
             \o Occurrences(content, sub, n, pos + 1)

\* matched.decode() raises for some occurrence of the list
DecodeFails(occ) == \E i \in 1..Len(occ) : ~Utf8Decode(occ[i].matched).ok

\* find_in_file returning the first of several occurrences instead of raising.
find_in_file_FirstMatch(fsys, p, search_str) ==
    LET v == validate_text_file(fsys, p)
    IN  IF v # "ok" THEN [kind |-> v]
        ELSE IF search_str = <<>> THEN [kind |-> "loop"]
        ELSE LET occ == Occurrences(fsys[p], Encode("utf-8", search_str),
                                    Len(search_str), 0)
             IN  IF occ = <<>> THEN None
                 ELSE IF DecodeFails(occ) THEN [kind |-> "UnicodeDecodeError"]
                 ELSE [kind |-> "match", line |-> occ[1].line,
                       matched |-> Utf8Decode(occ[1].matched).text,
                       pos |-> occ[1].pos]

\* find_in_file: the exception it raises, "loop" when its while loop never
\* ends (mm.find(b'', n) returns min(n, size) for every n, so start_pos
\* grows for ever), None, or the single match.  The file is searched as
\* bytes for the UTF-8 bytes of search_str.
find_in_file(fsys, p, search_str) ==
    LET v == validate_text_file(fsys, p)
    IN  IF v # "ok" THEN [kind |-> v]
        ELSE IF search_str = <<>> THEN [kind |-> "loop"]
        ELSE LET occ == Occurrences(fsys[p], Encode("utf-8", search_str),
                                    Len(search_str), 0)
             IN  IF occ = <<>> THEN None
                 ELSE IF DecodeFails(occ) THEN [kind |-> "UnicodeDecodeError"]
                 ELSE IF Len(occ) > 1
                 THEN [kind |-> "ValueError",
                       msg |-> "Multiple occurrences found",
                       line_numbers |-> [i \in 1..Len(occ) |-> occ[i].line]]
                 ELSE [kind |-> "match", line |-> occ[1].line,
                       matched |-> Utf8Decode(occ[1].matched).text,
                       pos |-> occ[1].pos]

\* Reading a file opened with open(path, 'r'): universal newlines, "\r\n"
\* and "\r" come out as "\n".
RECURSIVE TextRead(_)
TextRead(content) ==
    IF content = <<>> THEN <<>>
    ELSE IF content[1] = CR
    THEN IF Len(content) >= 2 /\ content[2] = NL
         THEN <<NL>> \o TextRead(SubSeq(content, 3, Len(content)))
         ELSE <<NL>> \o TextRead(Tail(content))
    ELSE <<content[1]>> \o TextRead(Tail(content))

\* The lines a text file object yields, each with its "\n" (the last line
\* may have none).
RECURSIVE SplitLines(_)
SplitLines(text) ==
    IF text = <<>> THEN <<>>
    ELSE LET nls == {i \in 1..Len(text) : text[i] = NL}
         IN  IF nls = {} THEN <<text>>
             ELSE LET e == CHOOSE i \in nls : \A j \in nls : i <= j
                  IN  <<SubSeq(text, 1, e)>>
                      \o SplitLines(SubSeq(text, e + 1, Len(text)))

\* The file object decodes the bytes it reads with the locale's encoding,
\* whatever encoding the file is in, and fails on bytes that are not valid
\* in it; what is written is encoded the same way.
Readable(content) == Decode(LocaleEncoding, content).ok
FileWrite(text) == Encode(LocaleEncoding, text)

MAX_FULL_READ_SIZE == 104857600

\* A loop that appends the line as it was read.
EnsureNewline_Keep(line) == line

\* if not line.endswith('\n'): line += '\n'
EnsureNewline(line) == IF EndsWithNL(line) THEN line ELSE line \o <<NL>>

\* The loop "for line in f" of read_file_range over the lines not yet read:
\* the lines it appends.  0 stands for None (both are false in a test).
RECURSIVE ReadLoop(_, _, _, _)
ReadLoop(lines, current_line, start, end) ==
    IF lines = <<>> THEN <<>>
    ELSE LET cur == current_line + 1
         IN  IF end # 0 /\ cur > end THEN <<>>
             ELSE (IF start = 0 \/ cur >= start
                   THEN <<EnsureNewline(Head(lines))>> ELSE <<>>)
                  \o ReadLoop(Tail(lines), cur, start, end)

\* read_file_range(path, start_line, end_line): the exception it raises or
\* the text it returns.
read_file_range(fsys, p, start, end) ==
    LET v == validate_text_file(fsys, p)
    IN  IF v # "ok" THEN [kind |-> v]
        ELSE IF ~Readable(fsys[p]) THEN [kind |-> "UnicodeDecodeError"]
        ELSE LET text == TextRead(Decode(LocaleEncoding, fsys[p]).text)
             IN  IF Len(fsys[p]) <= MAX_FULL_READ_SIZE /\ ~(start # 0 \/ end # 0)
                 THEN [kind |-> "ok", text |-> text]
                 ELSE LET lines == SplitLines(text)
                          skipped == IF start # 0 THEN start - 1 ELSE 0
                          rest == SubSeq(lines, skipped + 1, Len(lines))
                      IN  [kind |-> "ok",
                           text |-> Flatten(ReadLoop(rest, skipped, start, end))]

SrcLines(content) ==
    SplitLines(TextRead(Decode(LocaleEncoding, content).text))

\* for _ in range(line_num - 1): dst.write(next(src))
CopiedBefore(content, line_num) ==
    FileWrite(Flatten(SubSeq(SrcLines(content), 1, line_num - 1)))

\* dst.write(new_str); if not new_str.endswith('\n'): dst.write('\n')
NewWithTerminator(new) == IF EndsWithNL(new) THEN new ELSE new \o <<NL>>

\* next(src) skips one line; for line in src: dst.write(line)
CopiedRest(content, line_num) ==
    LET ls == SrcLines(content)
    IN  FileWrite(Flatten(SubSeq(ls, line_num + 1, Len(ls))))

\* What replace_in_file has written to the temporary file when it closes it.
WrittenContent(content, line_num, new) ==
    CopiedBefore(content, line_num) \o FileWrite(NewWithTerminator(new))
        \o CopiedRest(content, line_num)

\* The statement whose next(src) first reads, and so decodes, the file.
FirstRead(line_num) == IF line_num > 1 THEN "copy_before" ELSE "write_new"

\* A finally block that leaves the temporary file behind.
CleanupTemp_Skip(fsys, p) == fsys

\* finally: if temp_path.exists(): temp_path.unlink()
CleanupTemp(fsys, p) ==
    IF fsys[temp_path(p)] # NoFile
    THEN [fsys EXCEPT ![temp_path(p)] = NoFile] ELSE fsys

\* os.replace(temp_path, path)
OsReplace(fsys, p) ==
    [fsys EXCEPT ![p] = fsys[temp_path(p)], ![temp_path(p)] = NoFile]

\* The places of replace_in_file's try block where an I/O operation can fail.
FaultPoints == {"try", "copy_before", "write_new", "copy_rest", "replace"}

\* replace_in_file as one call: the set of its possible outcomes, each the
\* file system it leaves, the exception it raises and the value it returns.
\* Whatever the try block had written when an I/O operation failed, the
\* finally block unlinks the temporary path.  On an empty old_str the call
\* does not return (find_in_file loops) unless memory runs out.  On a file
\* that is not valid in the locale's encoding the first read raises.
replace_in_file(fsys, p, old, new) ==
    LET r == find_in_file(fsys, p, old)
    IN  IF r.kind = "match" /\ Readable(fsys[p])
        THEN { [fs |-> CleanupTemp(
                         OsReplace([fsys EXCEPT ![temp_path(p)] =
                                       WrittenContent(fsys[p], r.line, new)], p), p),
                raised |-> None,
                ret |-> [line |-> r.line, matched |-> r.matched]] }
             \cup
             { [fs |-> CleanupTemp(fsys, p),
                raised |-> [kind |-> "OSError", at |-> a],
                ret |-> None] : a \in FaultPoints }
        ELSE IF r.kind = "match"
        THEN { [fs |-> CleanupTemp(fsys, p),
                raised |-> [kind |-> "UnicodeDecodeError", at |-> FirstRead(r.line)],
                ret |-> None] }
             \cup
             { [fs |-> CleanupTemp(fsys, p),
                raised |-> [kind |-> "OSError", at |-> a],
                ret |-> None] : a \in {"try", "copy_before", FirstRead(r.line)} }
        ELSE IF r = None
        THEN { [fs |-> fsys,
                raised |-> [kind |-> "ValueError", msg |-> "String not found"],
                ret |-> None] }
        ELSE IF r.kind = "loop"
        THEN { [fs |-> fsys, raised |-> [kind |-> "MemoryError"], ret |-> None] }
        ELSE { [fs |-> fsys, raised |-> r, ret |-> None] }

(***************************************************************************)
(* The workspace check of the dispatcher (spec section 4.4).  The tree     *)
(* holds the directory /ws, the files of Files and two symbolic links in   *)
(* /ws: link points outside the workspace, self points to a file in it.    *)
(***************************************************************************)
NoRoot == <<"<no root>">>
WorkspaceDir == <<"ws">>
Dirs == {<<>>, <<"ws">>}

IsSymlink(p) == p \in {<<"ws", "link">>, <<"ws", "self">>}
SymlinkTarget(p) == IF p = <<"ws", "link">> THEN <<"out">> ELSE <<"ws", "f">>

\* Canonicalization: ".." drops the last segment, a symbolic link is
\* replaced by its target.
RECURSIVE ResolveFrom(_, _)
ResolveFrom(stack, rest) ==
    IF rest = <<>> THEN stack
    ELSE IF Head(rest) = ".."
    THEN ResolveFrom(IF stack = <<>> THEN <<>> ELSE SubSeq(stack, 1, Len(stack) - 1),
                     Tail(rest))
    ELSE LET q == Append(stack, Head(rest))
         IN  ResolveFrom(IF IsSymlink(q) THEN SymlinkTarget(q) ELSE q, Tail(rest))

Resolve(p) == ResolveFrom(<<>>, p)

\* equal to or nested under the root
IsWithin(root, p) == Len(root) <= Len(p) /\ SubSeq(p, 1, Len(root)) = root

\* A check that drops ".." segments but follows no symbolic link.
RECURSIVE Normalize(_, _)
Normalize(stack, rest) ==
    IF rest = <<>> THEN stack
    ELSE IF Head(rest) = ".."
    THEN Normalize(IF stack = <<>> THEN <<>> ELSE SubSeq(stack, 1, Len(stack) - 1),
                   Tail(rest))
    ELSE Normalize(Append(stack, Head(rest)), Tail(rest))

authorize_NoSymlinks(root, p) ==
    root = NoRoot \/ IsWithin(Normalize(<<>>, root), Normalize(<<>>, p))

\* A check that takes a missing root for a root that holds nothing.
authorize_RootRequired(root, p) ==
    root # NoRoot /\ IsWithin(Resolve(root), Resolve(p))

\* authorize(path): TRUE when the path may be accessed.
authorize(root, p) ==
    root = NoRoot \/ IsWithin(Resolve(root), Resolve(p))

(***************************************************************************)
(* encoding.py: EncodingManager.  The manager sees of a file whether it    *)
(* exists, its modification time and what chardet.detect says of its       *)
(* leading bytes (an encoding or "None", and a confidence in hundredths).  *)
(***************************************************************************)
EncPaths == { <<"ws", "f">>, <<"out">> }
MTimes == 0..MaxMtime
NoVerdict == [encoding |-> "None", confidence |-> 0]
Verdicts ==
    { NoVerdict,
      [encoding |-> "windows-1251", confidence |-> 70],
      [encoding |-> "windows-1251", confidence |-> 99] }
Absent == [exists |-> FALSE, mtime |-> 0, verdict |-> NoVerdict]
NoEntry == [encoding |-> "<no entry>", mtime |-> -1]

default_encoding == "utf-8"
confidence_threshold == 70

\* os.path.getmtime(path) if path.exists() else 0
CurrentMtime(dsk, p) == IF dsk[p].exists THEN dsk[p].mtime ELSE 0

\* An acceptance that takes a confidence equal to the threshold as well.
Accepted_Encoding_AtLeast(v) ==
    IF v.encoding # "None" /\ v.confidence >= confidence_threshold
    THEN v.encoding ELSE default_encoding

\* result['encoding'] if (result['encoding'] and result['confidence'] >
\* self.confidence_threshold) else self.default_encoding
Accepted_Encoding(v) ==
    IF v.encoding # "None" /\ v.confidence > confidence_threshold
    THEN v.encoding ELSE default_encoding

\* detect_encoding(path): the cache it leaves, the value it returns, whether
\* it read the file and ran the classifier, and the exception it raises
\* (os.path.getsize raises on a path that does not exist).
detect_encoding(cache, dsk, p) ==
    IF cache[p] # NoEntry /\ cache[p].mtime = CurrentMtime(dsk, p)
    THEN [cache |-> cache, value |-> cache[p].encoding, detected |-> FALSE,
          raised |-> "none"]
    ELSE IF ~dsk[p].exists
    THEN [cache |-> cache, value |-> "none", detected |-> FALSE,
          raised |-> "FileNotFoundError"]
    ELSE LET encoding == Accepted_Encoding(dsk[p].verdict)
         IN  [cache |-> [cache EXCEPT ![p] =
                            [encoding |-> encoding, mtime |-> CurrentMtime(dsk, p)]],
              value |-> encoding, detected |-> TRUE, raised |-> "none"]

\* A get_encoding that trusts any cache entry, whatever its modification time.
get_encoding_AnyEntry(cache, dsk, p) ==
    IF ~dsk[p].exists
    THEN [cache |-> cache, value |-> default_encoding, detected |-> FALSE,
          raised |-> "none"]
    ELSE IF cache[p] = NoEntry THEN detect_encoding(cache, dsk, p)
    ELSE [cache |-> cache, value |-> cache[p].encoding, detected |-> FALSE,
          raised |-> "none"]

\* A get_encoding that looks into the cache before it looks for the file.
get_encoding_CacheFirst(cache, dsk, p) ==
    IF cache[p] # NoEntry /\ cache[p].mtime = CurrentMtime(dsk, p)
    THEN [cache |-> cache, value |-> cache[p].encoding, detected |-> FALSE,
          raised |-> "none"]
    ELSE IF ~dsk[p].exists
    THEN [cache |-> cache, value |-> default_encoding, detected |-> FALSE,
          raised |-> "none"]
    ELSE detect_encoding(cache, dsk, p)

\* get_encoding(path)
get_encoding(cache, dsk, p) ==
    IF ~dsk[p].exists
    THEN [cache |-> cache, value |-> default_encoding, detected |-> FALSE,
          raised |-> "none"]
    ELSE IF cache[p] = NoEntry THEN detect_encoding(cache, dsk, p)
    ELSE IF dsk[p].mtime # cache[p].mtime THEN detect_encoding(cache, dsk, p)
    ELSE [cache |-> cache, value |-> cache[p].encoding, detected |-> FALSE,
          raised |-> "none"]

\* set_encoding(path, encoding)
set_encoding(cache, dsk, p, encoding) ==
    [cache EXCEPT ![p] = [encoding |-> encoding, mtime |-> CurrentMtime(dsk, p)]]

\* A clear_cache(path) that drops every entry.
clear_cache_Everything(cache, p) == [q \in DOMAIN cache |-> NoEntry]

\* clear_cache(path), and clear_cache() for all paths
clear_cache(cache, p) == [cache EXCEPT ![p] = NoEntry]
clear_cache_all(cache) == [q \in EncPaths |-> NoEntry]

\* 'encoding' not in kwargs: the caller passed no encoding keyword.
NoKwarg == "none"

\* A wrapper that puts its own encoding into kwargs whatever the caller
\* passed.
with_encoding_Override(cache, dsk, is_dir, exists, p, kwargs) ==
    IF is_dir THEN [cache |-> cache, encoding |-> kwargs]
    ELSE IF ~exists
    THEN [cache |-> cache, encoding |-> default_encoding]
    ELSE LET r == get_encoding(cache, dsk, p)
         IN  [cache |-> r.cache, encoding |-> r.value]

\* with_encoding(method)(self, path, ..., **kwargs): the cache it leaves and
\* kwargs['encoding'] as the method receives it (NoKwarg when the key is
\* absent); is_dir is path.is_dir(), exists is path.exists() and kwargs is
\* the encoding keyword of the caller.
with_encoding(cache, dsk, is_dir, exists, p, kwargs) ==
    IF is_dir THEN [cache |-> cache, encoding |-> kwargs]
    ELSE IF ~exists
    THEN [cache |-> cache,
          encoding |-> IF kwargs = NoKwarg THEN default_encoding ELSE kwargs]
    ELSE LET r == get_encoding(cache, dsk, p)
         IN  [cache |-> r.cache,
              encoding |-> IF kwargs = NoKwarg THEN r.value ELSE kwargs]

(***************************************************************************)
(* State.                                                                  *)
(***************************************************************************)
VARIABLES
    fs,              \* the file system: content or NoFile of every path of Files
    \* a running replace_in_file(TargetPath, old_str, new_str) call
    fs0,             \* the file system when the call was entered
    pc,              \* the position of the call
    old_str,         \* its arguments
    new_str,
    found,           \* its find_in_file result
    raised,          \* the exception it raises, or None
    ret,             \* its return value, or None
    \* the editor (dispatcher)
    workspace_root,  \* the configured root, or NoRoot
    file_history,    \* per canonical path, the stack of prior contents
    result,          \* the outcome of the last command
    log,             \* the successful mutating and undo commands so far
    envelope,        \* what file_editor made of the outcome of the command
    \* the encoding manager
    disk,            \* per path, what the manager sees of the file
    encoding_cache,  \* EncodingManager._encoding_cache
    enc_result,      \* the outcome of the last call of the manager
    \* a file stored in some encoding, edited through with_encoding
    stored_text,       \* the text that was stored, or NoFile
    stored_encoding,   \* the encoding it was stored in
    kw_encoding,     \* kwargs['encoding'] as with_encoding sets it
    \* the language-server manager (LSPManager)
    servers,         \* _servers: the languages a server was created for
    created,         \* per language, the number of SyncLanguageServer.create calls
    active_server,   \* _active_server: a server or "None"
    running_servers, \* _running_servers
    ctx,             \* per get_server_for_file context, the server it holds
    starts,          \* the number of start_server() calls so far
    lsp_result,      \* the last entry or exit of a context
    \* history of the encoding manager
    explicit_encoding, \* per path, the encoding set_encoding gave the existing
                       \* file and no clear_cache has cleared, or "None"
    \* a read_file_range(TargetPath, start_line, end_line) call
    start_line,      \* its arguments; 0 stands for None
    end_line,
    range_result,    \* what it returns or raises
    \* the envelope of file_editor and its extraction
    editor_result,   \* the ToolResult of the command
    before_text,     \* free-form text around the string file_editor returns
    after_text,
    returned,        \* the string file_editor returns, or NoText
    extracted,       \* what extract_result makes of the embedded string
    \* a call of validate_text_file or of a primitive that starts with it
    file_stat,       \* what the file system says of the path
    io_call,         \* the function called, or "none"
    io_pc,           \* the position of the call
    io_trace,        \* the accesses to the path so far
    io_result,       \* the exception raised, "ok", or "none" while it runs
    \* the tag cache of TreeSitterParser and the file it is asked about
    clock,           \* the time, in ticks
    tag_file,        \* the file: its text and st_mtime, or NoTagFile
    tags_cache,      \* tags_cache[abs_path]: None or [mtime, data]
    tags_result,     \* the last get_tags_from_file call, or None
    \* a detect_encoding or get_encoding call, step by step, and a writer
    w_file,          \* the file: whether it exists, its mtime and verdict
    w_cache,         \* _encoding_cache[path_str], or NoEntry
    w_call,          \* the method called, or "none"
    w_pc,            \* the position of the call
    current_mtime,   \* its local current_mtime
    raw_data,        \* what it read of the file: the verdict chardet gives
    writes,          \* the number of writes to the file so far
    \* a call of _update_end_lines_for_def_using_def_with_body
    parsed_tags,     \* its argument
    result_tags,     \* the list it returns, or None before the call
    \* SimpleTextBrowser
    current_text,    \* the text of the page, or NoText
    current_position,
    search_position,
    search_term,     \* the lowered term, or NoText
    shown,           \* the last call, what it found and what it returned
    visited          \* the positions find and find_next found for the term

callVars == <<fs0, pc, old_str, new_str, found, raised, ret>>
editorVars == <<workspace_root, file_history, result, log, envelope>>
encVars == <<disk, encoding_cache, enc_result>>
storeVars == <<stored_text, stored_encoding, kw_encoding>>
lspVars == <<servers, created, active_server, running_servers, ctx, starts, lsp_result>>
overrideVars == <<explicit_encoding>>
readVars == <<start_line, end_line, range_result>>
frameVars == <<editor_result, before_text, after_text, returned, extracted>>
validateVars == <<file_stat, io_call, io_pc, io_trace, io_result>>
tagVars == <<clock, tag_file, tags_cache, tags_result>>
raceVars == <<w_file, w_cache, w_call, w_pc, current_mtime, raw_data, writes>>
parseVars == <<parsed_tags, result_tags>>
browserVars == <<current_text, current_position, search_position, search_term,
                 shown, visited>>
restVars == <<validateVars, tagVars, raceVars, parseVars, browserVars>>
moreVars == <<frameVars, restVars>>
laterVars == <<storeVars, lspVars, overrideVars, readVars, moreVars>>
vars == <<fs, callVars, editorVars, encVars, laterVars>>

NoCall ==
    /\ fs0 = fs
    /\ pc = "idle"
    /\ old_str = <<>>
    /\ new_str = <<>>
    /\ found = None
    /\ raised = None
    /\ ret = None

NoResult ==
    [command |-> "none", path |-> <<>>, ok |-> TRUE, error |-> "none",
     accessed |-> {}]

NoEncResult ==
    [op |-> "none", path |-> <<>>, value |-> "none", detected |-> FALSE,
     raised |-> "none", existed |-> FALSE, mtime |-> 0, before |-> NoEntry,
     kwargs |-> NoKwarg]

NoEncoding ==
    /\ disk = [p \in EncPaths |-> Absent]
    /\ encoding_cache = [p \in EncPaths |-> NoEntry]
    /\ enc_result = NoEncResult

NoStore ==
    /\ stored_text = NoFile
    /\ stored_encoding = "none"
    /\ kw_encoding = "none"

Contexts == {1, 2}

NoLspResult ==
    [op |-> "none", ctx |-> 0, raised |-> "none", was_active |-> "None",
     starts_before |-> 0, supported |-> FALSE]

Languages == {"python", "rust"}

NoLsp ==
    /\ servers = {}
    /\ created = [l \in Languages |-> 0]
    /\ active_server = "None"
    /\ running_servers = {}
    /\ ctx = [c \in Contexts |-> "out"]
    /\ starts = 0
    /\ lsp_result = NoLspResult

NoOverride == explicit_encoding = [p \in EncPaths |-> "None"]

NoRead ==
    /\ start_line = 0
    /\ end_line = 0
    /\ range_result = None

NoText == <<"<None>">>

NoFrame ==
    /\ editor_result = [output |-> NoText, error |-> NoText]
    /\ before_text = <<>>
    /\ after_text = <<>>
    /\ returned = NoText
    /\ extracted = None

NoStat == [exists |-> FALSE, size |-> 0, mime |-> "none"]

NoValidate ==
    /\ file_stat = NoStat
    /\ io_call = "none"
    /\ io_pc = "idle"
    /\ io_trace = <<>>
    /\ io_result = "none"

NoTagFile == [code |-> "<no file>", st_mtime |-> -1]

NoTags ==
    /\ clock = 0
    /\ tag_file = NoTagFile
    /\ tags_cache = None
    /\ tags_result = None

NoRace ==
    /\ w_file = [exists |-> FALSE, mtime |-> 0,
                 verdict |-> [encoding |-> "None", confidence |-> 0]]
    /\ w_cache = [encoding |-> "<no entry>", mtime |-> -1]
    /\ w_call = "none"
    /\ w_pc = "idle"
    /\ current_mtime = 0
    /\ raw_data = [encoding |-> "None", confidence |-> 0]
    /\ writes = 0

NoParse ==
    /\ parsed_tags = <<>>
    /\ result_tags = None

NoShown == [op |-> "none"]

NoBrowser ==
    /\ current_text = NoText
    /\ current_position = 0
    /\ search_position = 0
    /\ search_term = NoText
    /\ shown = NoShown
    /\ visited = <<>>

NoRest ==
    /\ NoValidate
    /\ NoTags
    /\ NoRace
    /\ NoParse
    /\ NoBrowser

NoMore ==
    /\ NoFrame
    /\ NoRest

NoLater ==
    /\ NoStore
    /\ NoLsp
    /\ NoOverride
    /\ NoRead
    /\ NoMore

NoEnvelope == [kind |-> "none"]

NoEditor ==
    /\ workspace_root = NoRoot
    /\ file_history = [f \in Files |-> <<>>]
    /\ result = NoResult
    /\ log = <<>>
    /\ envelope = NoEnvelope

(***************************************************************************)
(* replace_in_file(TargetPath, old_str, new_str), step by step.            *)
(***************************************************************************)
InitFileOps ==
    /\ \E c \in (StrUpTo(MaxFileLen) \cup {NoFile}),
          t \in {NoFile, <<"a", "a">>} :
         fs = [f \in Files |->
                 IF f = TargetPath THEN c
                 ELSE IF f = temp_path(TargetPath) THEN t ELSE NoFile]
    /\ fs0 = fs
    /\ pc = "start"
    /\ old_str \in StrUpTo(MaxOldLen)
    /\ new_str \in StrUpTo(MaxNewLen)
    /\ found = None
    /\ raised = None
    /\ ret = None
    /\ NoEditor
    /\ NoEncoding
    /\ NoLater

\* result = find_in_file(path, old_str); if not result: raise ValueError
Find ==
    /\ pc = "start"
    /\ LET r == find_in_file(fs, TargetPath, old_str)
       IN  /\ found' = r
           /\ \/ /\ r.kind = "match"
                 /\ pc' = "try"
                 /\ raised' = raised
              \/ /\ r.kind = "loop"
                 /\ pc' = "find_loop"
                 /\ raised' = raised
              \/ /\ r = None
                 /\ pc' = "raised"
                 /\ raised' = [kind |-> "ValueError", msg |-> "String not found"]
              \/ /\ r.kind \notin {"match", "loop", "None"}
                 /\ pc' = "raised"
                 /\ raised' = r
    /\ UNCHANGED <<fs, fs0, old_str, new_str, ret, editorVars, encVars, laterVars>>

\* The while loop of find_in_file on an empty search string: it goes round
\* for ever, or ends by exhausting memory.
FindLoop ==
    /\ pc = "find_loop"
    /\ \/ UNCHANGED vars
       \/ /\ pc' = "raised"
          /\ raised' = [kind |-> "MemoryError"]
          /\ UNCHANGED <<fs, fs0, old_str, new_str, found, ret, editorVars, encVars, laterVars>>

\* with open(path, 'r') as src, open(temp_path, 'w') as dst
OpenFiles ==
    /\ pc = "try"
    /\ fs' = [fs EXCEPT ![temp_path(TargetPath)] = <<>>]
    /\ pc' = "copy_before"
    /\ UNCHANGED <<fs0, old_str, new_str, found, raised, ret, editorVars, encVars, laterVars>>

\* The first next(src) decodes what it reads and raises on invalid bytes.
DecodeFault ==
    /\ raised' = [kind |-> "UnicodeDecodeError", at |-> pc]
    /\ pc' = "finally"
    /\ UNCHANGED <<fs, fs0, old_str, new_str, found, ret, editorVars, encVars, laterVars>>

CopyBefore ==
    /\ pc = "copy_before"
    /\ IF FirstRead(found.line) = pc /\ ~Readable(fs[TargetPath])
       THEN DecodeFault
       ELSE /\ fs' = [fs EXCEPT ![temp_path(TargetPath)] =
                        @ \o CopiedBefore(fs[TargetPath], found.line)]
            /\ pc' = "write_new"
            /\ UNCHANGED <<fs0, old_str, new_str, found, raised, ret,
                           editorVars, encVars, laterVars>>

WriteNew ==
    /\ pc = "write_new"
    /\ IF FirstRead(found.line) = pc /\ ~Readable(fs[TargetPath])
       THEN DecodeFault
       ELSE /\ fs' = [fs EXCEPT ![temp_path(TargetPath)] =
                        @ \o FileWrite(NewWithTerminator(new_str))]
            /\ pc' = "copy_rest"
            /\ UNCHANGED <<fs0, old_str, new_str, found, raised, ret,
                           editorVars, encVars, laterVars>>

CopyRest ==
    /\ pc = "copy_rest"
    /\ fs' = [fs EXCEPT ![temp_path(TargetPath)] =
                 @ \o CopiedRest(fs[TargetPath], found.line)]
    /\ pc' = "replace"
    /\ UNCHANGED <<fs0, old_str, new_str, found, raised, ret, editorVars, encVars, laterVars>>

Replace ==
    /\ pc = "replace"
    /\ fs' = OsReplace(fs, TargetPath)
    /\ ret' = [line |-> found.line, matched |-> found.matched]
    /\ pc' = "finally"
    /\ UNCHANGED <<fs0, old_str, new_str, found, raised, editorVars, encVars, laterVars>>

\* An open, a write or the rename fails with an OSError.
IOFault ==
    /\ pc \in FaultPoints
    /\ raised' = [kind |-> "OSError", at |-> pc]
    /\ pc' = "finally"
    /\ UNCHANGED <<fs, fs0, old_str, new_str, found, ret, editorVars, encVars, laterVars>>

Finally ==
    /\ pc = "finally"
    /\ fs' = CleanupTemp(fs, TargetPath)
    /\ pc' = IF raised = None THEN "returned" ELSE "raised"
    /\ UNCHANGED <<fs0, old_str, new_str, found, raised, ret, editorVars, encVars, laterVars>>

NextFileOps ==
    \/ Find
    \/ FindLoop
    \/ OpenFiles
    \/ CopyBefore
    \/ WriteNew
    \/ CopyRest
    \/ Replace
    \/ IOFault
    \/ Finally

SpecFileOps == InitFileOps /\ [][NextFileOps]_vars

\* The steps of a call add up to one of the outcomes of replace_in_file.
StepsAgreeWithCall ==
    pc \in {"returned", "raised"} =>
        [fs |-> fs, raised |-> raised, ret |-> ret]
            \in replace_in_file(fs0, TargetPath, old_str, new_str)

(***************************************************************************)
(* The editor: the command dispatcher of spec section 4.1 with the undo    *)
(* history of section 4.5.  Every command is one action.  str_replace      *)
(* edits the file with replace_in_file.                                    *)
(***************************************************************************)
ReqPaths ==
    { <<"ws", "f">>, <<"ws", "f.tmp">>, <<"ws", "self">>, <<"ws", "link">>,
      <<"ws", "..", "out">>, <<"ws", "..", "ws", "f">>, <<"out">>,
      <<"out.tmp">>, <<"ws">> }
FileTexts == { <<"a", NL, "a", NL>> }
OldStrs == { <<"a">>, <<"b">> }
NewStrs == { <<"c">> }
InsertLines == { -1, 0, 7 }

InitEditor ==
    /\ fs = [f \in Files |->
               IF f \in {<<"ws", "f">>, <<"out">>} THEN <<"a", NL, "b", NL>>
               ELSE NoFile]
    /\ NoCall
    /\ workspace_root \in {NoRoot, WorkspaceDir}
    /\ file_history = [f \in Files |-> <<>>]
    /\ result = NoResult
    /\ log = <<>>
    /\ envelope = NoEnvelope
    /\ NoEncoding
    /\ NoLater

\* The editor runs one command at a time: a command is accepted when the
\* caller has taken the result of the one before.
Idle == result = NoResult

\* A dispatcher that looks at the target before it checks the workspace.
Touched_BeforeCheck(root, p) == {Resolve(p)}

\* The paths a command on p reads or writes: none when the workspace check
\* rejects p, for the check comes first.
Touched(root, p) == IF authorize(root, p) THEN {Resolve(p)} ELSE {}

Outcome(cmd, p, ok, err) ==
    [command |-> cmd, path |-> p, ok |-> ok, error |-> err,
     accessed |-> Touched(workspace_root, p)]

\* A command that fails and changes nothing.
Fails(cmd, p, err) ==
    /\ result' = Outcome(cmd, p, FALSE, err)
    /\ UNCHANGED <<fs, file_history, log>>

\* A history stack that keeps only the latest entry.
PushHistory_KeepOne(h, c, prior) == [h EXCEPT ![c] = <<prior>>]

\* push(path, priorContent)
PushHistory(h, c, prior) == [h EXCEPT ![c] = Append(@, prior)]

\* A create that records the text it wrote as the prior content.
HistoryEntry_CreatedText(cmd, before, after) ==
    IF cmd = "create" THEN after ELSE before

\* The prior content a mutating command records: the full text of the file
\* before it; for create that is NoFile, "did not exist".
HistoryEntry(cmd, before, after) == before

\* A successful mutating command: the file system it leaves; the content of
\* the path before it goes onto the history of the path.
Mutates(cmd, p, newfs) ==
    LET c == Resolve(p)
    IN  /\ Len(log) < MaxEdits
        /\ fs' = newfs
        /\ file_history' =
             PushHistory(file_history, c, HistoryEntry(cmd, fs[c], newfs[c]))
        /\ log' = Append(log, [command |-> cmd, path |-> c,
                               pre |-> fs[c], post |-> newfs[c]])
        /\ result' = Outcome(cmd, p, TRUE, "none")

\* The checks every file command starts with: the workspace check, then the
\* kind of the target.  The error, or "ok".
Precheck(cmd, p) ==
    IF ~authorize(workspace_root, p) THEN "File access not permitted"
    ELSE IF Resolve(p) \in Dirs /\ cmd # "view" THEN "IsADirectory"
    ELSE "ok"

\* The exception a failed command raises.  The dispatcher raises its own
\* errors as ToolErrors; the errors of the file primitives are the
\* exceptions of file_ops.py.
ExceptionClass(err) ==
    CASE err \in {"File access not permitted", "IsADirectory", "FileExists",
                  "InvalidInsertLine"} -> "EditorToolParameterInvalidError"
      [] err = "NoPriorEdit" -> "ToolError"
      [] err \in {"String not found", "Multiple occurrences found"} -> "ValueError"
      [] OTHER -> err

\* A boundary that catches every exception.
IsToolError_Any(cls) == TRUE

\* except ToolError: the classes it catches
IsToolError(cls) ==
    cls \in {"ToolError", "EditorToolParameterInvalidError",
             "EditorToolParameterMissingError"}

\* An error result that also carries the message as output.
ErrorResult_WithOutput(message) == [output |-> message, error |-> message]

\* ToolResult(error=e.message)
ErrorResult(message) == [output |-> "None", error |-> message]

\* The truth value of an optional string: None and "" are false.
Truthy(x) == x \notin {"None", ""}

\* make_api_tool_result(tool_result)
make_api_tool_result(tool_result) ==
    IF Truthy(tool_result.error)
    THEN [kind |-> "text", text |-> <<"ERROR:", tool_result.error>>]
    ELSE IF ~Truthy(tool_result.output) THEN [kind |-> "AssertionError"]
    ELSE [kind |-> "text", text |-> <<tool_result.output>>]

\* file_editor(command, path, ...), given the outcome r of the command in
\* the dispatcher: the envelope it returns or the exception that leaves it.
file_editor(r) ==
    IF r = NoResult THEN NoEnvelope
    ELSE IF ~r.ok /\ ~IsToolError(ExceptionClass(r.error))
    THEN [kind |-> "raised", class |-> ExceptionClass(r.error)]
    ELSE LET tool_result ==
                 IF r.ok THEN [output |-> "<output>", error |-> "None"]
                 ELSE ErrorResult(r.error)
             formatted == make_api_tool_result(tool_result)
         IN  IF formatted.kind = "AssertionError"
             THEN [kind |-> "raised", class |-> "AssertionError"]
             ELSE [kind |-> "returned", output |-> tool_result.output,
                   error |-> tool_result.error,
                   formatted_output_and_error |-> formatted.text]

\* A call of file_editor: the command runs in the dispatcher and
\* file_editor wraps its outcome.
Wrapped == envelope' = file_editor(result')

View(p) ==
    /\ Idle
    /\ LET c == Resolve(p)
           e == Precheck("view", p)
       IN  IF e # "ok" THEN Fails("view", p, e)
           ELSE IF c \in Dirs
           THEN /\ result' = Outcome("view", p, TRUE, "none")
                /\ UNCHANGED <<fs, file_history, log>>
           ELSE IF validate_text_file(fs, c) # "ok"
           THEN Fails("view", p, validate_text_file(fs, c))
           ELSE /\ result' = Outcome("view", p, TRUE, "none")
                /\ UNCHANGED <<fs, file_history, log>>
    /\ UNCHANGED <<workspace_root, callVars, encVars, laterVars>>
    /\ Wrapped

\* A test that never finds the target.
ExistsAsFile_Never(fsys, c) == FALSE

\* The target of create already exists as a file.
ExistsAsFile(fsys, c) == fsys[c] # NoFile

Create(p, file_text) ==
    /\ Idle
    /\ LET c == Resolve(p)
           e == Precheck("create", p)
       IN  IF e # "ok" THEN Fails("create", p, e)
           ELSE IF ExistsAsFile(fs, c) THEN Fails("create", p, "FileExists")
           ELSE Mutates("create", p, [fs EXCEPT ![c] = file_text])
    /\ UNCHANGED <<workspace_root, callVars, encVars, laterVars>>
    /\ Wrapped

\* The error of a failed primitive: the exception, and which of its two
\* ValueErrors it is.
ErrorOf(e) == IF e.kind = "ValueError" THEN e.msg ELSE e.kind

StrReplace(p, old, new) ==
    /\ Idle
    /\ LET c == Resolve(p)
           e == Precheck("str_replace", p)
       IN  IF e # "ok" THEN Fails("str_replace", p, e)
           ELSE \E o \in replace_in_file(fs, c, old, new) :
                   IF o.raised = None
                   THEN Mutates("str_replace", p, o.fs)
                   ELSE /\ fs' = o.fs
                        /\ result' = Outcome("str_replace", p, FALSE, ErrorOf(o.raised))
                        /\ UNCHANGED <<file_history, log>>
    /\ UNCHANGED <<workspace_root, callVars, encVars, laterVars>>
    /\ Wrapped

\* The text with new inserted after its first k lines.
InsertAfter(content, k, new) ==
    LET ls == SplitLines(content)
    IN  Flatten(SubSeq(ls, 1, k))
        \o (IF k > 0 /\ ~EndsWithNL(ls[k]) THEN <<NL>> ELSE <<>>)
        \o NewWithTerminator(new)
        \o Flatten(SubSeq(ls, k + 1, Len(ls)))

Insert(p, insert_line, new) ==
    /\ Idle
    /\ LET c == Resolve(p)
           e == Precheck("insert", p)
       IN  IF e # "ok" THEN Fails("insert", p, e)
           ELSE IF validate_text_file(fs, c) # "ok"
           THEN Fails("insert", p, validate_text_file(fs, c))
           ELSE IF insert_line < 0 \/ insert_line > Len(SplitLines(fs[c]))
           THEN Fails("insert", p, "InvalidInsertLine")
           ELSE Mutates("insert", p,
                        [fs EXCEPT ![c] = InsertAfter(fs[c], insert_line, new)])
    /\ UNCHANGED <<workspace_root, callVars, encVars, laterVars>>
    /\ Wrapped

UndoEdit(p) ==
    /\ Idle
    /\ LET c == Resolve(p)
           e == Precheck("undo_edit", p)
       IN  IF e # "ok" THEN Fails("undo_edit", p, e)
           ELSE IF file_history[c] = <<>> THEN Fails("undo_edit", p, "NoPriorEdit")
           ELSE LET h == file_history[c]
                    prior == h[Len(h)]
                IN  /\ Len(log) < MaxEdits
                    /\ fs' = [fs EXCEPT ![c] = prior]
                    /\ file_history' = [file_history EXCEPT
                                          ![c] = SubSeq(h, 1, Len(h) - 1)]
                    /\ log' = Append(log, [command |-> "undo_edit", path |-> c,
                                           pre |-> fs[c], post |-> prior])
                    /\ result' = Outcome("undo_edit", p, TRUE, "none")
    /\ UNCHANGED <<workspace_root, callVars, encVars, laterVars>>
    /\ Wrapped

\* The caller takes the result of the command.
TakeResult ==
    /\ result # NoResult
    /\ result' = NoResult
    /\ UNCHANGED <<fs, callVars, workspace_root, file_history, log, encVars, laterVars>>
    /\ Wrapped

NextEditor ==
    \/ TakeResult
    \/ \E p \in ReqPaths : View(p)
    \/ \E p \in ReqPaths, t \in FileTexts : Create(p, t)
    \/ \E p \in ReqPaths, o \in OldStrs, n \in NewStrs : StrReplace(p, o, n)
    \/ \E p \in ReqPaths, k \in InsertLines, n \in NewStrs : Insert(p, k, n)
    \/ \E p \in ReqPaths : UndoEdit(p)

SpecEditor == InitEditor /\ [][NextEditor]_vars

(***************************************************************************)
(* Properties of replace_in_file, checked under SpecFileOps.               *)
(***************************************************************************)
Orig == fs0[TargetPath]
Now == fs[TargetPath]
TmpNow == fs[temp_path(TargetPath)]

\* The positions (0-based) where sub occurs in content, overlapping
\* occurrences included, and the 1-based line a position lies on.
OccPositions(content, sub) ==
    {i \in 0..(Len(content) - Len(sub)) : SubSeq(content, i + 1, i + Len(sub)) = sub}
LineOfPos(content, i) == 1 + Cardinality({j \in 1..i : content[j] = NL})

Accepted == validate_text_file(fs0, TargetPath) = "ok"
OccCount == IF Orig = NoFile THEN 0 ELSE Cardinality(OccPositions(Orig, old_str))

NotFoundError == [kind |-> "ValueError", msg |-> "String not found"]

\* The outcome of replace_in_file by the number of occurrences, without the
\* statement that old_str is absent from the result.
ReplaceOutcomeByCount ==
    /\ pc = "returned" =>
         /\ Accepted
         /\ OccCount = 1
         /\ Contains(Now, new_str)
         /\ \A i \in OccPositions(Orig, old_str) : ret.line = LineOfPos(Orig, i)
    /\ pc = "raised" =>
         /\ Now = Orig
         /\ ~Accepted => raised.kind = validate_text_file(fs0, TargetPath)
         /\ (Accepted /\ old_str # <<>> /\ OccCount = 0) => raised = NotFoundError
         /\ (Accepted /\ old_str # <<>> /\ OccCount >= 2) =>
              /\ raised.kind = "ValueError"
              /\ raised.msg = "Multiple occurrences found"
              /\ Len(raised.line_numbers) = OccCount
              /\ {raised.line_numbers[k] : k \in 1..Len(raised.line_numbers)}
                   = {LineOfPos(Orig, i) : i \in OccPositions(Orig, old_str)}
         /\ (Accepted /\ old_str # <<>> /\ OccCount = 1) => raised.kind = "OSError"
         /\ (Accepted /\ old_str = <<>>) => raised.kind = "MemoryError"

BeforeMatch == SubSeq(Orig, 1, found.pos)
AfterMatch == SubSeq(Orig, found.pos + Len(found.matched) + 1, Len(Orig))

\* C4: on a unique match the result is the text before the match, new_str
\* with its line terminator, and the text after the match, all verbatim.
C4_OnlyMatchedTextChanges ==
    pc = "returned" =>
        Now = BeforeMatch \o NewWithTerminator(new_str) \o AfterMatch

\* old_str is made of two or more whole consecutive lines of the file.
SpansWholeLines ==
    /\ \E k \in 1..(Len(old_str) - 1) : old_str[k] = NL
    /\ found.pos = 0 \/ Orig[found.pos] = NL
    /\ EndsWithNL(found.matched) \/ found.pos + Len(old_str) = Len(Orig)

\* C5: when old_str is two or more whole lines of a file without carriage
\* returns, every line of the match is gone after the edit: the lines before
\* it, new_str and the lines after the last line of the match are the result.
C5_MultiLineMatchRemoved ==
    (pc = "returned" /\ SpansWholeLines /\ ~Contains(Orig, <<CR>>)) =>
        /\ IsPrefix(BeforeMatch \o NewWithTerminator(new_str), Now)
        /\ IsSuffix(AfterMatch, Now)
        /\ Len(Now) = Len(BeforeMatch) + Len(NewWithTerminator(new_str))
                        + Len(AfterMatch)

\* C6: when replace_in_file raises, the target holds its content of before
\* the call and the call leaves no temporary file (a file at <target>.tmp is
\* one that was there before and that the call did not open); and at every
\* step the target holds either that content or the complete new content.
C6_FailureLeavesTargetIntact ==
    /\ pc = "raised" =>
         /\ Now = Orig
         /\ \/ TmpNow = NoFile
            \/ raised.kind # "OSError" /\ TmpNow = fs0[temp_path(TargetPath)]
    /\ Now # Orig =>
         /\ pc \in {"finally", "returned"}
         /\ Now = WrittenContent(Orig, found.line, new_str)

\* C6 witness: a write to the temporary file failed after the new text was
\* written, and the call has raised.
C6_Witness ==
    /\ pc = "raised"
    /\ raised.kind = "OSError"
    /\ raised.at = "copy_rest"
    /\ Orig # NoFile

\* C26: when replace_in_file has returned or raised, every file other than
\* the target, a file that was at <target>.tmp before the call included,
\* exists with the content it had when the call was entered.
C26_OnlyTargetModified ==
    pc \in {"returned", "raised"} =>
        \A f \in Files \ {TargetPath} : fs[f] = fs0[f]

\* The part of C26 that holds: the files other than the target and
\* <target>.tmp are as they were.
C26_OnlyTargetAndTempModified ==
    pc \in {"returned", "raised"} =>
        \A f \in Files \ {TargetPath, temp_path(TargetPath)} : fs[f] = fs0[f]

(***************************************************************************)
(* Properties of the editor, checked under SpecEditor.                     *)
(***************************************************************************)
AccessDenied == "File access not permitted"
RootSet == workspace_root # NoRoot
Outside(p) == ~IsWithin(Resolve(workspace_root), Resolve(p))

\* C1: with a workspace root configured, a view, create, str_replace or
\* insert is rejected with 'File access not permitted' exactly when its path
\* resolves, ".." segments and symbolic links followed, outside the root.
C1_WorkspaceContainment ==
    (RootSet /\ result.command \in {"view", "create", "str_replace", "insert"}) =>
        (result.error = AccessDenied <=> Outside(result.path))

\* C1 witness: a str_replace through the symbolic link that points out of
\* the workspace has been rejected.
C1_Witness ==
    /\ workspace_root = WorkspaceDir
    /\ result.command = "str_replace"
    /\ result.path = <<"ws", "link">>
    /\ result.error = AccessDenied

\* C2: a command rejected by the workspace check has read and written no
\* file: the file system and the history are as before it (a rejected create
\* leaves its target non-existent).
C2_RejectedTouchesNothing ==
    [][result'.error = AccessDenied =>
          /\ result'.accessed = {}
          /\ fs' = fs
          /\ file_history' = file_history]_vars

\* C2 witness: a create outside the workspace has been rejected and its
\* target does not exist.
C2_Witness ==
    /\ result.command = "create"
    /\ result.error = AccessDenied
    /\ fs[Resolve(result.path)] = NoFile

\* C22: when no workspace root is configured, no command is rejected with
\* 'File access not permitted', whatever its path: outside /ws, through
\* ".." segments or through a symbolic link.
C22_NoRootNoRejection ==
    workspace_root = NoRoot => result.error # AccessDenied

\* C22 witness: with no root configured, a str_replace through the symbolic
\* link that leaves /ws has edited the file outside.
C22_Witness ==
    /\ workspace_root = NoRoot
    /\ result.command = "str_replace"
    /\ result.path = <<"ws", "link">>
    /\ result.ok
    /\ fs[<<"out">>] # <<"a", NL, "b", NL>>

\* The successful mutations of path c in lg that no undo_edit has reversed,
\* oldest first.
RECURSIVE NotUndone(_, _)
NotUndone(lg, c) ==
    IF lg = <<>> THEN <<>>
    ELSE LET e == lg[Len(lg)]
             before == NotUndone(SubSeq(lg, 1, Len(lg) - 1), c)
         IN  IF e.path # c THEN before
             ELSE IF e.command = "undo_edit"
             THEN SubSeq(before, 1, Len(before) - 1)
             ELSE Append(before, e)

\* C7: an undo_edit that succeeds leaves the file with the content it had
\* before the most recent mutation of it that was not yet undone; when that
\* mutation was a create, the file does not exist.
C7_UndoRoundTrip ==
    (result.command = "undo_edit" /\ result.ok) =>
        LET c == Resolve(result.path)
            open == NotUndone(SubSeq(log, 1, Len(log) - 1), c)
        IN  /\ open # <<>>
            /\ fs[c] = open[Len(open)].pre
            /\ open[Len(open)].command = "create" => fs[c] = NoFile

\* C7 witness: a create has been undone.
C7_Witness ==
    /\ result.command = "undo_edit"
    /\ result.ok
    /\ Len(log) >= 2
    /\ log[Len(log) - 1].command = "create"
    /\ log[Len(log) - 1].path = Resolve(result.path)

\* C8: a command that fails changes neither the file system nor the
\* history, and the history grows only by one entry, on the stack of the
\* path edited, by a successful create, str_replace or insert.
C8_AllOrNothing ==
    [][/\ (result' # NoResult /\ ~result'.ok) =>
            (fs' = fs /\ file_history' = file_history)
       /\ (\E f \in Files : Len(file_history'[f]) > Len(file_history[f])) =>
            /\ result'.ok
            /\ result'.command \in {"create", "str_replace", "insert"}
            /\ \A f \in Files :
                  file_history'[f] =
                     IF f = Resolve(result'.path)
                     THEN Append(file_history[f], fs[f])
                     ELSE file_history[f]]_vars

C18_CreateNeverOverwrites ==
    [][(/\ result' # result
        /\ result'.command = "create"
        /\ Resolve(result'.path) \in Files
        /\ fs[Resolve(result'.path)] # NoFile) =>
           /\ ~result'.ok
           /\ fs' = fs
           /\ file_history' = file_history]_vars

\* C18 witness: a create inside the permitted area has failed because the
\* file exists, on a path that has an undo history.
C18_Witness ==
    /\ result.command = "create"
    /\ result.error = "FileExists"
    /\ fs[Resolve(result.path)] # NoFile
    /\ file_history[Resolve(result.path)] # <<>>

\* C19: every result of file_editor has exactly one of output and error:
\* after a ToolError the error is set and the output is None, after a
\* successful command the output is set and the error is None.
C19_OutputXorError ==
    envelope.kind = "returned" =>
        /\ Truthy(envelope.output) # Truthy(envelope.error)
        /\ result.ok => (Truthy(envelope.output) /\ envelope.error = "None")
        /\ ~result.ok => (Truthy(envelope.error) /\ envelope.output = "None")

\* C19 witness: file_editor has returned the result of a command that
\* raised a ToolError.
C19_Witness ==
    /\ envelope.kind = "returned"
    /\ ~result.ok
    /\ result.error = "NoPriorEdit"
    /\ envelope.error = "NoPriorEdit"

\* The errors of the taxonomy as the commands report them: parameter
\* invalid, access denied, file not found, file too large, invalid file
\* type, ambiguous match, no prior edit.
Taxonomy ==
    {"File access not permitted", "IsADirectory", "FileExists",
     "InvalidInsertLine", "FileNotFoundError", "FileTooLargeError",
     "InvalidFileTypeError", "Multiple occurrences found", "NoPriorEdit"}

\* C20: every error of the taxonomy that arises in a file_editor call comes
\* back as an error result; none leaves file_editor as an exception.
C20_TaxonomyErrorsAreCaught ==
    (result # NoResult /\ ~result.ok /\ result.error \in Taxonomy) =>
        /\ envelope.kind = "returned"
        /\ Truthy(envelope.error)

\* C20, the part that holds: the errors the dispatcher raises itself
\* (parameter invalid, access denied, no prior edit) come back as error
\* results.
C20_ToolErrorsAreCaught ==
    (result # NoResult /\ ~result.ok /\ IsToolError(ExceptionClass(result.error))) =>
        /\ envelope.kind = "returned"
        /\ envelope.error = result.error

(***************************************************************************)
(* The encoding manager, one action per call, with the files changing      *)
(* between calls.                                                          *)
(***************************************************************************)
SetEncodings == { "latin-1" }

InitEncoding ==
    /\ fs = [f \in Files |-> NoFile]
    /\ NoCall
    /\ NoEditor
    /\ disk \in [EncPaths -> {Absent}
                    \cup {[exists |-> TRUE, mtime |-> 1, verdict |-> v] : v \in Verdicts}]
    /\ encoding_cache = [p \in EncPaths |-> NoEntry]
    /\ enc_result = NoEncResult
    /\ NoLater

\* The outcome of a call, with what the call found: whether the file
\* existed, its modification time and the cache entry of the path.
EncOutcome(op, p, r) ==
    [op |-> op, path |-> p, value |-> r.value, detected |-> r.detected,
     raised |-> r.raised, existed |-> disk[p].exists,
     mtime |-> CurrentMtime(disk, p), before |-> encoding_cache[p],
     kwargs |-> NoKwarg]

EncIdle == enc_result = NoEncResult

GetEncoding(p) ==
    /\ EncIdle
    /\ LET r == get_encoding(encoding_cache, disk, p)
       IN  /\ encoding_cache' = r.cache
           /\ enc_result' = EncOutcome("get_encoding", p, r)
    /\ UNCHANGED <<fs, callVars, editorVars, laterVars, disk>>

DetectEncoding(p) ==
    /\ EncIdle
    /\ LET r == detect_encoding(encoding_cache, disk, p)
       IN  /\ encoding_cache' = r.cache
           /\ enc_result' = EncOutcome("detect_encoding", p, r)
    /\ UNCHANGED <<fs, callVars, editorVars, laterVars, disk>>

SetEncoding(p, e) ==
    /\ EncIdle
    /\ encoding_cache' = set_encoding(encoding_cache, disk, p, e)
    /\ enc_result' = EncOutcome("set_encoding", p,
                                [value |-> e, detected |-> FALSE, raised |-> "none"])
    /\ explicit_encoding' =
          [explicit_encoding EXCEPT ![p] = IF disk[p].exists THEN e ELSE "None"]
    /\ UNCHANGED <<fs, callVars, editorVars, storeVars, lspVars, readVars, moreVars, disk>>

ClearCache(p) ==
    /\ EncIdle
    /\ encoding_cache' = clear_cache(encoding_cache, p)
    /\ enc_result' = EncOutcome("clear_cache", p,
                                [value |-> "none", detected |-> FALSE, raised |-> "none"])
    /\ explicit_encoding' = [explicit_encoding EXCEPT ![p] = "None"]
    /\ UNCHANGED <<fs, callVars, editorVars, storeVars, lspVars, readVars, moreVars, disk>>

ClearCacheAll ==
    /\ EncIdle
    /\ encoding_cache' = clear_cache_all(encoding_cache)
    /\ enc_result' = [op |-> "clear_cache_all", path |-> <<>>, value |-> "none",
                      detected |-> FALSE, raised |-> "none", existed |-> FALSE,
                      mtime |-> 0, before |-> NoEntry, kwargs |-> NoKwarg]
    /\ explicit_encoding' = [p \in EncPaths |-> "None"]
    /\ UNCHANGED <<fs, callVars, editorVars, storeVars, lspVars, readVars, moreVars, disk>>

\* A method decorated with with_encoding is called on a file or on a
\* directory, with or without an encoding keyword; value is the encoding the
\* method receives.
WrappedPaths == EncPaths \cup {<<"ws">>}
Kwargs == {NoKwarg} \cup SetEncodings

CallWrapped(p, kw) ==
    /\ EncIdle
    /\ LET is_dir == p \in Dirs
           exists == is_dir \/ disk[p].exists
           r == with_encoding(encoding_cache, disk, is_dir, exists, p, kw)
       IN  /\ encoding_cache' = r.cache
           /\ enc_result' =
                 [op |-> "with_encoding", path |-> p, value |-> r.encoding,
                  detected |-> FALSE, raised |-> "none", existed |-> exists,
                  mtime |-> IF is_dir THEN 0 ELSE CurrentMtime(disk, p),
                  before |-> IF is_dir THEN NoEntry ELSE encoding_cache[p],
                  kwargs |-> kw]
    /\ UNCHANGED <<fs, callVars, editorVars, laterVars, disk>>

\* The caller takes the result of the call.
TakeEncResult ==
    /\ ~EncIdle
    /\ enc_result' = NoEncResult
    /\ UNCHANGED <<fs, callVars, editorVars, laterVars, disk, encoding_cache>>

\* Between calls a file is written (created or modified), with any
\* modification time, or removed.
WriteFile(p, v, m) ==
    /\ EncIdle
    /\ disk' = [disk EXCEPT ![p] = [exists |-> TRUE, mtime |-> m, verdict |-> v]]
    /\ UNCHANGED <<fs, callVars, editorVars, laterVars, encoding_cache, enc_result>>

RemoveFile(p) ==
    /\ EncIdle
    /\ disk[p].exists
    /\ disk' = [disk EXCEPT ![p] = Absent]
    /\ UNCHANGED <<fs, callVars, editorVars, laterVars, encoding_cache, enc_result>>

NextEncoding ==
    \/ \E p \in EncPaths : GetEncoding(p)
    \/ \E p \in EncPaths : DetectEncoding(p)
    \/ \E p \in EncPaths, e \in SetEncodings : SetEncoding(p, e)
    \/ \E p \in EncPaths : ClearCache(p)
    \/ ClearCacheAll
    \/ \E p \in WrappedPaths, kw \in Kwargs : CallWrapped(p, kw)
    \/ TakeEncResult
    \/ \E p \in EncPaths, v \in Verdicts, m \in MTimes : WriteFile(p, v, m)
    \/ \E p \in EncPaths : RemoveFile(p)

SpecEncoding == InitEncoding /\ [][NextEncoding]_vars

(***************************************************************************)
(* Properties of the encoding manager, checked under SpecEncoding.         *)
(***************************************************************************)
\* C10: get_encoding on an existing file returns the cached encoding without
\* detecting exactly when the path has a cache entry whose modification time
\* is the file's; otherwise it detects and the entry becomes the detected
\* encoding with the file's modification time.
C10_CacheHitIffSameMtime ==
    (enc_result.op = "get_encoding" /\ enc_result.existed) =>
        LET hit == /\ enc_result.before # NoEntry
                   /\ enc_result.before.mtime = enc_result.mtime
            entry == encoding_cache[enc_result.path]
        IN  /\ hit => /\ ~enc_result.detected
                      /\ enc_result.value = enc_result.before.encoding
                      /\ entry = enc_result.before
            /\ ~hit => /\ enc_result.detected
                       /\ entry = [encoding |-> enc_result.value,
                                   mtime |-> enc_result.mtime]

\* C10 witness: get_encoding found an entry with another modification time
\* than the file's and detected again.
C10_Witness ==
    /\ enc_result.op = "get_encoding"
    /\ enc_result.existed
    /\ enc_result.before # NoEntry
    /\ enc_result.before.mtime # enc_result.mtime
    /\ enc_result.detected
    /\ enc_result.value # enc_result.before.encoding

\* C14: after set_encoding(path, e) on an existing file, every get_encoding
\* of the path, while the file exists, returns e until clear_cache(path) or
\* clear_cache() is called, also when the file was modified in between.
C14_OverrideUntilCleared ==
    (/\ enc_result.op = "get_encoding"
     /\ enc_result.existed
     /\ explicit_encoding[enc_result.path] # "None") =>
        enc_result.value = explicit_encoding[enc_result.path]

\* C14, the part that holds: between set_encoding and a clear_cache,
\* get_encoding returns the encoding that was set whenever the file has the
\* modification time it had at set_encoding and no detect_encoding ran on
\* another modification time since.
C14_OverrideWhileUnmodified ==
    (/\ enc_result.op = "get_encoding"
     /\ enc_result.existed
     /\ explicit_encoding[enc_result.path] # "None"
     /\ enc_result.before.encoding = explicit_encoding[enc_result.path]
     /\ enc_result.before.mtime = enc_result.mtime) =>
        /\ enc_result.value = explicit_encoding[enc_result.path]
        /\ ~enc_result.detected

\* C15: on a path that does not exist get_encoding returns the default
\* encoding, reads and detects nothing, and leaves the cache entry of the
\* path as it was, whatever it was.
C15_NonexistentIsDefault ==
    (enc_result.op = "get_encoding" /\ ~enc_result.existed) =>
        /\ enc_result.value = default_encoding
        /\ enc_result.raised = "none"
        /\ ~enc_result.detected
        /\ encoding_cache[enc_result.path] = enc_result.before

\* C15 witness: get_encoding on a path that does not exist and for which an
\* encoding other than the default is cached has returned the default.
C15_Witness ==
    /\ enc_result.op = "get_encoding"
    /\ ~enc_result.existed
    /\ enc_result.before # NoEntry
    /\ enc_result.before.encoding # default_encoding
    /\ enc_result.value = default_encoding

\* C32: a clear_cache(path) step leaves the cache as it was but for the
\* entry of the path, which is gone (nothing changes when there was none); a
\* clear_cache() step leaves no entry; and a get_encoding on an existing
\* file whose entry is gone runs the detection and stores a new entry.
C32_ClearDropsExactlyThePath ==
    [][/\ enc_result'.op = "clear_cache" =>
             /\ encoding_cache'[enc_result'.path] = NoEntry
             /\ \A q \in EncPaths \ {enc_result'.path} :
                   encoding_cache'[q] = encoding_cache[q]
       /\ enc_result'.op = "clear_cache_all" =>
             \A q \in EncPaths : encoding_cache'[q] = NoEntry
       /\ (/\ enc_result'.op = "get_encoding"
           /\ enc_result'.existed
           /\ encoding_cache[enc_result'.path] = NoEntry) =>
             /\ enc_result'.detected
             /\ encoding_cache'[enc_result'.path] =
                   [encoding |-> enc_result'.value, mtime |-> enc_result'.mtime]]_vars

\* C32 witness: clear_cache(path) has removed the entry of the path while
\* the other path keeps its entry.
C32_Witness ==
    /\ enc_result.op = "clear_cache"
    /\ enc_result.before # NoEntry
    /\ encoding_cache[enc_result.path] = NoEntry
    /\ \E q \in EncPaths \ {enc_result.path} : encoding_cache[q] # NoEntry

\* C33: the method wrapped by with_encoding receives the encoding keyword of
\* its caller whenever there is one; without one it receives no encoding
\* for a directory (and the cache is left alone), the default encoding for a
\* path that does not exist, and for an existing file what get_encoding of
\* the manager returns in that state, the cache being left as get_encoding
\* leaves it.
C33_InjectedUnlessGiven ==
    [][enc_result'.op = "with_encoding" =>
         LET p == enc_result'.path
             received == enc_result'.value
         IN  /\ enc_result'.kwargs # NoKwarg => received = enc_result'.kwargs
             /\ p \in Dirs =>
                   /\ enc_result'.kwargs = NoKwarg => received = NoKwarg
                   /\ encoding_cache' = encoding_cache
             /\ (p \notin Dirs /\ enc_result'.kwargs = NoKwarg) =>
                   IF ~disk[p].exists
                   THEN received = default_encoding
                   ELSE /\ received = get_encoding(encoding_cache, disk, p).value
                        /\ encoding_cache' =
                              get_encoding(encoding_cache, disk, p).cache]_vars

\* C33 witness: a wrapped method was called on an existing file whose
\* encoding the manager takes for windows-1251, with an encoding keyword of
\* the caller, and has received the caller's encoding.
C33_Witness ==
    /\ enc_result.op = "with_encoding"
    /\ enc_result.path \in EncPaths
    /\ enc_result.existed
    /\ enc_result.kwargs \in SetEncodings
    /\ enc_result.value = enc_result.kwargs
    /\ encoding_cache[enc_result.path] # NoEntry
    /\ encoding_cache[enc_result.path].encoding = "windows-1251"

\* C27: detect_encoding on a path that does not exist returns the default
\* encoding and raises nothing.
C27_DetectNonexistentIsDefault ==
    (enc_result.op = "detect_encoding" /\ ~enc_result.existed) =>
        /\ enc_result.raised = "none"
        /\ enc_result.value = default_encoding

\* C28: a detect_encoding that ran the classifier returns the encoding the
\* classifier names when its confidence is above 0.7, and the default utf-8
\* when it names none or its confidence is 0.7 or less; what it returns is
\* what it caches, with the modification time of the file.
C28_AcceptedAboveThreshold ==
    (enc_result.op = "detect_encoding" /\ enc_result.detected) =>
        LET v == disk[enc_result.path].verdict
            accepted == v.encoding # "None" /\ v.confidence > 70
        IN  /\ accepted => enc_result.value = v.encoding
            /\ ~accepted => enc_result.value = "utf-8"
            /\ encoding_cache[enc_result.path] =
                  [encoding |-> enc_result.value, mtime |-> enc_result.mtime]

\* C28 witness: the classifier named windows-1251 with a confidence of
\* exactly 0.7, and utf-8 was returned and cached.
C28_Witness ==
    /\ enc_result.op = "detect_encoding"
    /\ enc_result.detected
    /\ disk[enc_result.path].verdict =
          [encoding |-> "windows-1251", confidence |-> 70]
    /\ enc_result.value = "utf-8"
    /\ encoding_cache[enc_result.path].encoding = "utf-8"

(***************************************************************************)
(* str_replace on a file stored in some encoding: the dispatcher's         *)
(* str_replace runs under with_encoding, which resolves the encoding of    *)
(* the file and passes it on, and edits the file with replace_in_file,     *)
(* which takes no encoding.                                                *)
(***************************************************************************)
TextUpTo(n) == UNION {[1..k -> TextAlphabet] : k \in 0..n}
WordsUpTo(n) == UNION {[1..k -> TextAlphabet \ {NL}] : k \in 0..n}

InitEncodedEdit ==
    /\ stored_encoding \in {"utf-8", "windows-1251"}
    /\ stored_text \in TextUpTo(MaxFileLen) \cup {NoFile}
    /\ fs = [f \in Files |->
               IF f = TargetPath /\ stored_text # NoFile
               THEN Encode(stored_encoding, stored_text) ELSE NoFile]
    /\ fs0 = fs
    /\ pc = "with_encoding"
    /\ old_str \in WordsUpTo(MaxOldLen)
    /\ new_str \in WordsUpTo(MaxNewLen)
    /\ found = None
    /\ raised = None
    /\ ret = None
    /\ NoEditor
    /\ disk = [p \in EncPaths |->
                 IF p = TargetPath /\ stored_text # NoFile
                 THEN [exists |-> TRUE, mtime |-> 1,
                       verdict |-> [encoding |-> stored_encoding, confidence |-> 99]]
                 ELSE Absent]
    /\ encoding_cache = [p \in EncPaths |-> NoEntry]
    /\ enc_result = NoEncResult
    /\ kw_encoding = "none"
    /\ NoLsp
    /\ NoOverride
    /\ NoRead
    /\ NoMore

\* The wrapper of with_encoding, up to its call of the method.
WithEncoding ==
    /\ pc = "with_encoding"
    /\ LET r == with_encoding(encoding_cache, disk, TargetPath \in Dirs,
                               fs[TargetPath] # NoFile, TargetPath, NoKwarg)
       IN  /\ encoding_cache' = r.cache
           /\ kw_encoding' = r.encoding
    /\ pc' = "start"
    /\ UNCHANGED <<fs, fs0, old_str, new_str, found, raised, ret, editorVars,
                   disk, enc_result, stored_text, stored_encoding, lspVars,
                   overrideVars, readVars, moreVars>>

NextEncodedEdit ==
    \/ WithEncoding
    \/ NextFileOps

SpecEncodedEdit == InitEncodedEdit /\ [][NextEncodedEdit]_vars

(***************************************************************************)
(* Properties of edits of encoded files, checked under SpecEncodedEdit.    *)
(***************************************************************************)
\* The positions (1-based) of stored_text where old_str stands as a whole
\* line that ends with a line terminator.
WholeLineAt ==
    {i \in 1..(Len(stored_text) - Len(old_str)) :
        /\ SubSeq(stored_text, i, i + Len(old_str) - 1) = old_str
        /\ i = 1 \/ stored_text[i - 1] = NL
        /\ stored_text[i + Len(old_str)] = NL}

\* The text with the occurrence of old_str at i replaced by new_str.
ReplacedAt(i) ==
    SubSeq(stored_text, 1, i - 1) \o new_str
        \o SubSeq(stored_text, i + Len(old_str), Len(stored_text))

\* The file is in windows-1251 and not readable as UTF-8, with_encoding has
\* resolved its encoding, and old_str is one whole line of the text and
\* occurs nowhere else.
EncodedEditCase ==
    /\ stored_text # NoFile
    /\ stored_encoding = "windows-1251"
    /\ kw_encoding = stored_encoding
    /\ Contains(stored_text, <<"U+043F">>)
    /\ old_str # <<>>
    /\ Cardinality(WholeLineAt) = 1
    /\ Cardinality(OccPositions(stored_text, old_str)) = 1

\* C11: a str_replace of a whole line of a windows-1251 file, when no I/O
\* operation fails, succeeds, and the bytes of the file then decode in
\* windows-1251 to the original text with old_str replaced by new_str.
C11_EncodingRoundTrip ==
    (EncodedEditCase /\ pc \in {"returned", "raised"} /\ raised.kind # "OSError") =>
        /\ pc = "returned"
        /\ \A i \in WholeLineAt :
              Decode(stored_encoding, fs[TargetPath]) = [ok |-> TRUE, text |-> ReplacedAt(i)]

\* The k-th (from 1) position of a set of positions, in increasing order.
KthPosition(P, k) == CHOOSE i \in P : Cardinality({j \in P : j < i}) = k - 1

\* What find_in_file is to return for a needle in a text: None, the single
\* match with the line terminator that follows it, or the error with the
\* line number of every occurrence.
FindContract(text, needle, r) ==
    LET P == OccPositions(text, needle)
        n == Cardinality(P)
    IN  /\ n = 0 => r = None
        /\ n = 1 =>
              /\ r.kind = "match"
              /\ \A i \in P :
                    /\ r.line = LineOfPos(text, i)
                    /\ r.matched =
                          IF i + Len(needle) + 1 <= Len(text)
                                /\ text[i + Len(needle) + 1] = NL
                          THEN needle \o <<NL>> ELSE needle
        /\ n > 1 =>
              /\ r.kind = "ValueError"
              /\ r.line_numbers = [k \in 1..n |-> LineOfPos(text, KthPosition(P, k))]

\* find_in_file has run on a UTF-8 file that passes validation, with a
\* needle that is not empty.
FindCase ==
    /\ stored_text # NoFile
    /\ stored_encoding = "utf-8"
    /\ validate_text_file(fs0, TargetPath) = "ok"
    /\ old_str # <<>>
    /\ pc \notin {"with_encoding", "start"}

\* C16: find_in_file returns None when the needle occurs nowhere, the
\* 1-based line and the matched text with the line terminator that follows
\* it when it occurs once, and raises an error listing the line of every
\* occurrence, overlapping and same-line ones included, when it occurs more
\* than once.
C16_FindContract == FindCase => FindContract(stored_text, old_str, found)

\* C16, the part that holds: the same for a needle of ASCII characters.
C16_FindContract_Ascii ==
    (FindCase /\ \A k \in 1..Len(old_str) : old_str[k] \in Ascii) =>
        FindContract(stored_text, old_str, found)

(***************************************************************************)
(* read_file_range(TargetPath, start_line, end_line) on a file of ASCII    *)
(* text with any line terminators, of UTF-8 text, or of windows-1251 text. *)
(***************************************************************************)
RangeFiles ==
    StrUpTo(MaxFileLen) \cup {NoFile}
        \cup {Encode(e, t) : e \in {"utf-8", "windows-1251"},
                             t \in {<<"U+043F", NL>>, <<"a", NL, "U+043F">>}}

InitReadRange ==
    /\ \E c \in RangeFiles : fs = [f \in Files |-> IF f = TargetPath THEN c ELSE NoFile]
    /\ NoCall
    /\ NoEditor
    /\ NoEncoding
    /\ NoStore
    /\ NoLsp
    /\ NoOverride
    /\ NoMore
    /\ start_line \in 0..MaxLine
    /\ end_line \in 0..MaxLine
    /\ range_result = None

ReadFileRange ==
    /\ range_result = None
    /\ range_result' = read_file_range(fs, TargetPath, start_line, end_line)
    /\ UNCHANGED <<fs, callVars, editorVars, encVars, storeVars, lspVars,
                   overrideVars, moreVars, start_line, end_line>>

NextReadRange == ReadFileRange

SpecReadRange == InitReadRange /\ [][NextReadRange]_vars

(***************************************************************************)
(* Properties of read_file_range, checked under SpecReadRange.             *)
(***************************************************************************)
\* The text of the file as a text-mode read gives it, and that text with a
\* line terminator after its last line.
FileText == TextRead(Decode(LocaleEncoding, fs[TargetPath]).text)
Terminated(t) == IF t = <<>> \/ EndsWithNL(t) THEN t ELSE t \o <<NL>>

\* The position where line k of a terminated text ends (0 for k = 0).
EndOfLine(t, k) ==
    IF k = 0 THEN 0 ELSE KthPosition({i \in 1..Len(t) : t[i] = NL}, k)

\* Lines start..end of the text (0: no start, no end), each with its
\* terminator.
LinesOf(t, start, end) ==
    LET T == Terminated(t)
        N == Cardinality({i \in 1..Len(T) : T[i] = NL})
        lo == IF start = 0 THEN 1 ELSE start
        hi == IF end = 0 \/ end > N THEN N ELSE end
    IN  IF lo > hi THEN <<>>
        ELSE SubSeq(T, EndOfLine(T, lo - 1) + 1, EndOfLine(T, hi))

\* read_file_range has run on a file that passes validation and decodes.
ReadCase ==
    /\ range_result # None
    /\ validate_text_file(fs, TargetPath) = "ok"
    /\ Readable(fs[TargetPath])

\* C17: read_file_range returns the lines start..end of the file (1-based,
\* inclusive, no start: from line 1, no end: to the last line) in file
\* order, each ending with a line terminator also when the last line of
\* the file has none; with no range it returns the whole content of the
\* file.
C17_ReadsTheRange ==
    ReadCase =>
        /\ range_result.kind = "ok"
        /\ range_result.text =
              IF start_line = 0 /\ end_line = 0 THEN FileText
              ELSE LinesOf(FileText, start_line, end_line)

\* C17 witness: a range that starts after line 1 and reaches the last line
\* was read from a file whose last line has no terminator, and the text
\* returned ends with one.
C17_Witness ==
    /\ ReadCase
    /\ start_line >= 2
    /\ ~EndsWithNL(FileText)
    /\ range_result.kind = "ok"
    /\ range_result.text # <<>>
    /\ EndsWithNL(range_result.text)

(***************************************************************************)
(* lsp/manager.py: LSPManager.get_server_for_file, a context manager.      *)
(* Calls run one at a time (a call made in the body of a context is a      *)
(* nested call), so the entry of a context, up to its yield, and its exit  *)
(* are one step each.  A server is named by its language.                  *)
(***************************************************************************)
Extensions == {".py", ".rs", ".txt"}

\* _get_language(file_path): the language, or "ValueError"
get_language(ext) ==
    CASE ext = ".py" -> "python"
      [] ext = ".rs" -> "rust"
      [] OTHER -> "ValueError"

\* A check that lets every call through.
AlreadyActive_Never(active) == FALSE

\* if self._active_server is not None: raise RuntimeError(...)
AlreadyActive(active) == active # "None"

\* A rejection that runs the release of the finally block.
AfterRejection_Released(active) == "None"

\* raise RuntimeError(...) stands before the try block: _active_server is
\* left as it is
AfterRejection(active) == active

\* A finally block that leaves the server in _running_servers.
Removed_Kept(running, server) == running

\* if server in self._running_servers: self._running_servers.remove(server)
Removed(running, server) == running \ {server}

\* A release that happens only when the context exits without exception.
Released_OnSuccess(active, how) == IF how = "normal" THEN "None" ELSE active

\* finally: self._active_server = None
Released(active, how) == "None"

InitLsp ==
    /\ fs = [f \in Files |-> NoFile]
    /\ NoCall
    /\ NoEditor
    /\ NoEncoding
    /\ NoStore
    /\ NoLsp
    /\ NoOverride
    /\ NoRead
    /\ NoMore

beforeLsp ==
    <<fs, callVars, editorVars, encVars, storeVars, overrideVars, readVars, moreVars>>

\* A _get_server that creates a server on every request.
NeedsCreate_Always(srv, language) == TRUE

\* if language not in self._servers
NeedsCreate(srv, language) == language \notin srv

\* _get_server(language): _servers and the number of servers created after
\* it, and the server it returns: the language with the number of the
\* create call that made the instance stored in _servers[language].
get_server(srv, cr, language) ==
    IF NeedsCreate(srv, language)
    THEN [servers |-> srv \cup {language},
          created |-> [cr EXCEPT ![language] = @ + 1],
          server |-> <<language, cr[language] + 1>>]
    ELSE [servers |-> srv, created |-> cr, server |-> <<language, cr[language]>>]

NoServer == <<"None", 0>>

\* The server _get_server returned in a call that ended with r: none when
\* the call ended before it reached _get_server.
ReturnedServer(r, ext) ==
    IF r \in {"ValueError", "EditorToolParameterMissingError", "ToolError"}
    THEN NoServer
    ELSE get_server(servers, created, get_language(ext)).server

LspOutcome(op, c, r, ext) ==
    [op |-> op, ctx |-> c, raised |-> r, was_active |-> active_server,
     starts_before |-> starts, supported |-> get_language(ext) # "ValueError",
     servers_before |-> servers, running_before |-> running_servers,
     server |-> ReturnedServer(r, ext)]

\* manager._get_server(language), called on its own
GetServer(ext) ==
    /\ get_language(ext) # "ValueError"
    /\ LET g == get_server(servers, created, get_language(ext))
       IN  /\ servers' = g.servers
           /\ created' = g.created
    /\ lsp_result' = LspOutcome("get_server", 0, "none", ext)
    /\ UNCHANGED <<active_server, running_servers, ctx, starts>>
    /\ UNCHANGED beforeLsp

\* with manager.get_server_for_file(file_path): up to the yield.  start_ok
\* tells whether server.start_server() comes up.
Enter(c, ext, start_ok) ==
    /\ ctx[c] = "out"
    /\ LET language == get_language(ext)
       IN  IF language = "ValueError"
           THEN /\ lsp_result' = LspOutcome("enter", c, "ValueError", ext)
                /\ UNCHANGED <<servers, created, active_server, running_servers, ctx,
                               starts>>
           ELSE /\ servers' = get_server(servers, created, language).servers
                /\ created' = get_server(servers, created, language).created
                /\ IF AlreadyActive(active_server)
                   THEN /\ lsp_result' = LspOutcome("enter", c, "RuntimeError", ext)
                        /\ active_server' = AfterRejection(active_server)
                        /\ UNCHANGED <<running_servers, ctx, starts>>
                   ELSE /\ starts < MaxStarts
                        /\ starts' = starts + 1
                        /\ IF start_ok
                           THEN /\ active_server' = language
                                /\ running_servers' = running_servers \cup {language}
                                /\ ctx' = [ctx EXCEPT ![c] = language]
                                /\ lsp_result' = LspOutcome("enter", c, "none", ext)
                           ELSE /\ active_server' = Released(language, "start_fails")
                                /\ running_servers' = Removed(running_servers, language)
                                /\ ctx' = ctx
                                /\ lsp_result' =
                                      LspOutcome("enter", c, "StartError", ext)
    /\ UNCHANGED beforeLsp

\* The body of the context ends, normally or by an exception, the server is
\* stopped (which may raise as well), and the finally block runs.
Exit(c, how) ==
    /\ ctx[c] # "out"
    /\ active_server' = Released(active_server, how)
    /\ running_servers' = Removed(running_servers, ctx[c])
    /\ ctx' = [ctx EXCEPT ![c] = "out"]
    /\ lsp_result' = [op |-> "exit", ctx |-> c,
                      raised |-> IF how = "normal" THEN "none" ELSE how,
                      was_active |-> active_server, starts_before |-> starts,
                      supported |-> TRUE, servers_before |-> servers,
                      running_before |-> running_servers, server |-> NoServer]
    /\ UNCHANGED <<servers, created, starts>>
    /\ UNCHANGED beforeLsp

\* The navigation commands of the dispatcher and the old_str they are given:
\* "None" when the parameter is absent, a string of the file, or one that
\* the file does not hold.
NavCommands == {"jump_to_definition", "find_references", "hover"}
NavOldStrs == {"None", "hello", "nonexistent"}

\* A dispatcher that takes an absent old_str for given.
OldStrMissing_Never(old) == FALSE

\* old_str is absent
OldStrMissing(old) == old = "None"

\* _get_position_from_str finds the string in the file
PositionFound(old) == old = "hello"

NavOutcome(cmd, c, r, ext, old) ==
    [op |-> cmd, ctx |-> c, raised |-> r, was_active |-> active_server,
     starts_before |-> starts, supported |-> get_language(ext) # "ValueError",
     servers_before |-> servers, running_before |-> running_servers,
     old_str |-> old, server |-> ReturnedServer(r, ext),
     missing |-> IF r = "EditorToolParameterMissingError" THEN "old_str" ELSE "none"]

\* A navigation command on a file with extension ext, issued by caller c:
\* the parameter check, the position of old_str, then one session of the
\* language server for the request, acquired and released within the
\* command.  how tells how the request ends.
Navigate(cmd, c, ext, old, start_ok, how) ==
    /\ ctx[c] = "out"
    /\ IF OldStrMissing(old)
       THEN /\ lsp_result' =
                  NavOutcome(cmd, c, "EditorToolParameterMissingError", ext, old)
            /\ UNCHANGED <<servers, created, active_server, running_servers, starts>>
       ELSE IF ~PositionFound(old)
       THEN /\ lsp_result' = NavOutcome(cmd, c, "ToolError", ext, old)
            /\ UNCHANGED <<servers, created, active_server, running_servers, starts>>
       ELSE LET language == get_language(ext)
            IN  IF language = "ValueError"
                THEN /\ lsp_result' = NavOutcome(cmd, c, "ValueError", ext, old)
                     /\ UNCHANGED <<servers, created, active_server, running_servers,
                                    starts>>
                ELSE /\ servers' = get_server(servers, created, language).servers
                     /\ created' = get_server(servers, created, language).created
                     /\ IF AlreadyActive(active_server)
                        THEN /\ lsp_result' =
                                   NavOutcome(cmd, c, "RuntimeError", ext, old)
                             /\ active_server' = AfterRejection(active_server)
                             /\ UNCHANGED <<running_servers, starts>>
                        ELSE /\ starts < MaxStarts
                             /\ starts' = starts + 1
                             /\ active_server' =
                                   Released(language,
                                            IF start_ok THEN how ELSE "start_fails")
                             /\ running_servers' = Removed(running_servers, language)
                             /\ lsp_result' =
                                   NavOutcome(cmd, c,
                                              IF ~start_ok THEN "StartError"
                                              ELSE IF how = "normal" THEN "none"
                                              ELSE how,
                                              ext, old)
    /\ UNCHANGED ctx
    /\ UNCHANGED beforeLsp

NextLsp ==
    \/ \E ext \in Extensions : GetServer(ext)
    \/ \E c \in Contexts, ext \in Extensions, ok \in BOOLEAN : Enter(c, ext, ok)
    \/ \E c \in Contexts, how \in {"normal", "BodyError", "StopError"} : Exit(c, how)
    \/ \E cmd \in NavCommands, c \in Contexts, ext \in Extensions,
          old \in NavOldStrs, ok \in BOOLEAN, how \in {"normal", "BodyError"} :
          Navigate(cmd, c, ext, old, ok, how)

SpecLsp == InitLsp /\ [][NextLsp]_vars

(***************************************************************************)
(* Properties of the language-server manager, checked under SpecLsp.       *)
(***************************************************************************)
InBody == {c \in Contexts : ctx[c] # "out"}

\* C12: at most one context holds a session, the session it holds is the
\* active server and the only running one; and a get_server_for_file for a
\* file of a supported language entered while a server is active raises
\* 'Another LSP server is already active' at once: the caller is not made
\* to wait, no start_server() is called and the active session is as before.
C12_OneActiveSession ==
    /\ Cardinality(InBody) <= 1
    /\ \A c \in InBody : active_server = ctx[c] /\ running_servers = {ctx[c]}
    /\ InBody = {} => running_servers = {}
    /\ (lsp_result.op = "enter" /\ lsp_result.supported
          /\ lsp_result.was_active # "None") =>
          /\ lsp_result.raised = "RuntimeError"
          /\ ctx[lsp_result.ctx] = "out"
          /\ active_server = lsp_result.was_active
          /\ starts = lsp_result.starts_before

\* C12 witness: a second context was entered while the first held a session
\* and has been rejected.
C12_Witness ==
    /\ lsp_result.op = "enter"
    /\ lsp_result.raised = "RuntimeError"
    /\ lsp_result.ctx = 2
    /\ ctx[1] = "python"
    /\ active_server = "python"

\* C13: when a context that acquired the session has exited, normally, by
\* an exception of its body or of stopping the server, or because
\* start_server failed, no server is active, so that the check of the next
\* get_server_for_file passes.
C13_ReleasedOnEveryExit ==
    (lsp_result.op = "exit" \/ lsp_result.raised = "StartError") =>
        /\ active_server = "None"
        /\ ~AlreadyActive(active_server)
        /\ ctx[lsp_result.ctx] = "out"
        /\ running_servers = {}

\* C24: a jump_to_definition, find_references or hover without old_str has
\* failed with the parameter-missing error that names old_str, and has not
\* come to the language-server manager: no server was created or started
\* and the active session is as before.
C24_OldStrRequired ==
    (lsp_result.op \in NavCommands /\ lsp_result.old_str = "None") =>
        /\ lsp_result.raised = "EditorToolParameterMissingError"
        /\ lsp_result.missing = "old_str"
        /\ servers = lsp_result.servers_before
        /\ starts = lsp_result.starts_before
        /\ active_server = lsp_result.was_active
        /\ running_servers = lsp_result.running_before

\* C24 witness: a hover without old_str has been rejected before any server
\* was created.
C24_Witness ==
    /\ lsp_result.op = "hover"
    /\ lsp_result.old_str = "None"
    /\ lsp_result.raised = "EditorToolParameterMissingError"
    /\ lsp_result.supported
    /\ servers = {}

\* C30: a step in which an acquire is rejected with 'Another LSP server is
\* already active' leaves _active_server, _running_servers and the contexts
\* as they were; and as long as a context that holds a session does not
\* exit, its server stays the active and running one.
C30_RejectedAcquireChangesNothing ==
    [][/\ lsp_result'.raised = "RuntimeError" =>
             /\ active_server # "None"
             /\ active_server' = active_server
             /\ running_servers' = running_servers
             /\ ctx' = ctx
       /\ \A c \in Contexts :
             (ctx[c] # "out" /\ ctx'[c] # "out") =>
                 /\ ctx'[c] = ctx[c]
                 /\ active_server' = ctx[c]
                 /\ ctx[c] \in running_servers']_vars

\* C30 witness: while the first context holds the python server, an acquire
\* for a rust file by the second has been rejected, and the python session
\* is still the active one.
C30_Witness ==
    /\ lsp_result.raised = "RuntimeError"
    /\ lsp_result.op = "enter"
    /\ servers = {"python", "rust"}
    /\ lsp_result.was_active = "python"
    /\ active_server = "python"
    /\ running_servers = {"python"}
    /\ ctx[1] = "python"
    /\ ctx[2] = "out"

\* C31: in every state of the manager _running_servers holds at most one
\* server, and a server in it is _active_server; when no context holds a
\* session, _active_server is None and _running_servers is empty.
C31_RunningIsTheActiveOne ==
    /\ Cardinality(running_servers) <= 1
    /\ \A s \in running_servers : s = active_server
    /\ InBody = {} => (active_server = "None" /\ running_servers = {})

\* C31 witness: after sessions of both languages, the last one ended by an
\* exception of stopping the server, and nothing is running or active.
C31_Witness ==
    /\ servers = {"python", "rust"}
    /\ lsp_result.op = "exit"
    /\ lsp_result.raised = "StopError"
    /\ lsp_result.running_before # {}
    /\ InBody = {}
    /\ running_servers = {}
    /\ active_server = "None"

\* C34: at most one server has been created for each language, a language
\* is in _servers exactly when its server was created, and every call that
\* reached _get_server got the first and only instance of its language,
\* whatever was requested before.
C34_OneServerPerLanguage ==
    /\ \A l \in Languages :
          /\ created[l] <= 1
          /\ l \in servers <=> created[l] = 1
    /\ servers \subseteq Languages
    /\ lsp_result.op # "none" =>
          (lsp_result.server # NoServer =>
               /\ lsp_result.server[2] = 1
               /\ lsp_result.server[1] \in servers)

\* C34 witness: python was requested again after a request for rust, when
\* its server had been created before, and the first instance was returned.
C34_Witness ==
    /\ lsp_result.op = "get_server"
    /\ lsp_result.servers_before = {"python", "rust"}
    /\ lsp_result.server = <<"python", 1>>
    /\ created = [l \in Languages |-> 1]

\* C13 witness: a session that was acquired after an earlier one had ended
\* has exited by an exception of its body.
C13_Witness ==
    /\ lsp_result.op = "exit"
    /\ lsp_result.raised = "BodyError"
    /\ starts >= 2
    /\ active_server = "None"

(***************************************************************************)
(* The envelope: file_editor frames the serialized result between two     *)
(* tags that carry a fresh marker, and extract_result (cli.py) finds the   *)
(* frame in a text and parses it.  A text is a sequence of characters; a   *)
(* tag, a key of the dictionary and the word ERROR: stand as one character.*)
(***************************************************************************)
MaxTextLen == 2

QUOTE == "\""
BACKSLASH == "\\"
Markers == {"1", "2"}
OpenTag(m) == IF m = "1" THEN "<oh_aci_output_1>" ELSE "<oh_aci_output_2>"
CloseTag(m) == IF m = "1" THEN "</oh_aci_output_1>" ELSE "</oh_aci_output_2>"

\* <oh_aci_output_[0-9a-f]{32}> and </oh_aci_output_[0-9a-f]{32}>: any marker
IsOpenTag(c) == \E m \in Markers : c = OpenTag(m)
IsCloseTag(c) == \E m \in Markers : c = CloseTag(m)

\* marker_id = uuid.uuid4().hex: the marker of the call; a tag that stands
\* in a text carries another one.
marker_id == "1"
OtherMarker == "2"

\* json.dumps of a string, without the quotes around it
RECURSIVE JsonEscape(_)
JsonEscape(text) ==
    IF text = <<>> THEN <<>>
    ELSE (CASE Head(text) = QUOTE -> <<BACKSLASH, QUOTE>>
            [] Head(text) = BACKSLASH -> <<BACKSLASH, BACKSLASH>>
            [] Head(text) = NL -> <<BACKSLASH, "n">>
            [] OTHER -> <<Head(text)>>)
         \o JsonEscape(Tail(text))

\* json.dumps of an optional string
JsonItem(x) ==
    IF x = NoText THEN <<"null">> ELSE <<QUOTE>> \o JsonEscape(x) \o <<QUOTE>>

\* result.to_dict(extra_field={'formatted_output_and_error': ...})
to_dict(r, formatted) ==
    [output |-> r.output, error |-> r.error,
     formatted_output_and_error |-> formatted]

\* json.dumps(d, indent=2)
JsonDumps(d) ==
    <<"{", "output:">> \o JsonItem(d.output)
        \o <<",", "error:">> \o JsonItem(d.error)
        \o <<",", "formatted_output_and_error:">>
        \o JsonItem(d.formatted_output_and_error) \o <<"}">>

\* The string value json.loads reads after an opening quote: up to the
\* first quote that no backslash escapes.
RECURSIVE JsonString(_, _)
JsonString(s, acc) ==
    IF s = <<>> \/ Head(s) = NL THEN [ok |-> FALSE, value |-> <<>>, rest |-> <<>>]
    ELSE IF Head(s) = QUOTE THEN [ok |-> TRUE, value |-> acc, rest |-> Tail(s)]
    ELSE IF Head(s) = BACKSLASH
    THEN IF Len(s) < 2 \/ s[2] \notin {QUOTE, BACKSLASH, "n"}
         THEN [ok |-> FALSE, value |-> <<>>, rest |-> <<>>]
         ELSE JsonString(SubSeq(s, 3, Len(s)),
                         Append(acc, IF s[2] = "n" THEN NL ELSE s[2]))
    ELSE JsonString(Tail(s), Append(acc, Head(s)))

\* null or a string
JsonValue(s) ==
    IF s = <<>> THEN [ok |-> FALSE, value |-> <<>>, rest |-> <<>>]
    ELSE IF Head(s) = "null" THEN [ok |-> TRUE, value |-> NoText, rest |-> Tail(s)]
    ELSE IF Head(s) = QUOTE THEN JsonString(Tail(s), <<>>)
    ELSE [ok |-> FALSE, value |-> <<>>, rest |-> <<>>]

\* White space around a document
RECURSIVE JsonStrip(_)
JsonStrip(s) ==
    IF s # <<>> /\ Head(s) = NL THEN JsonStrip(Tail(s))
    ELSE IF s # <<>> /\ s[Len(s)] = NL THEN JsonStrip(SubSeq(s, 1, Len(s) - 1))
    ELSE s

\* The member "key: value" at the head of s, after the separator sep
JsonMember(s, sep, key) ==
    IF Len(s) < 2 \/ s[1] # sep \/ s[2] # key
    THEN [ok |-> FALSE, value |-> <<>>, rest |-> <<>>]
    ELSE JsonValue(SubSeq(s, 3, Len(s)))

\* json.loads of a dictionary with the three keys
JsonLoads(s) ==
    LET a == JsonMember(JsonStrip(s), "{", "output:")
        b == JsonMember(a.rest, ",", "error:")
        c == JsonMember(b.rest, ",", "formatted_output_and_error:")
    IN  IF a.ok /\ b.ok /\ c.ok /\ c.rest = <<"}">>
        THEN [kind |-> "ok",
              value |-> [output |-> a.value, error |-> b.value,
                         formatted_output_and_error |-> c.value]]
        ELSE [kind |-> "JSONDecodeError"]

\* The truth value of an optional text: None and the empty text are false.
TruthyText(t) == t \notin {NoText, <<>>}

\* assert tool_result.output, reached when the error is not true
AssertionFails(r) == ~TruthyText(r.error) /\ ~TruthyText(r.output)

\* make_api_tool_result on texts: 'ERROR:\n' and the error, or the output
formatted_output_and_error(r) ==
    IF TruthyText(r.error) THEN <<"ERROR:", NL>> \o r.error ELSE r.output

\* What file_editor leaves in place of a string when the assertion of
\* make_api_tool_result fails: the AssertionError leaves file_editor.
AssertionRaised == <<"<AssertionError>">>

\* The string file_editor returns: the dictionary between the two tags
Framed(marker, d) ==
    <<OpenTag(marker), NL>> \o JsonDumps(d) \o <<NL, CloseTag(marker)>>

\* extract_result(output): re.search with (.*?) between an opening and a
\* closing tag of any marker, then json.loads of the group
extract_result(output) ==
    LET closes == {j \in 1..Len(output) : IsCloseTag(output[j])}
        opens == {i \in 1..Len(output) :
                     IsOpenTag(output[i]) /\ \E j \in closes : j > i}
    IN  IF opens = {} THEN [kind |-> "AssertionError"]
        ELSE LET i == CHOOSE x \in opens : \A y \in opens : x <= y
                 after == {j \in closes : j > i}
                 j == CHOOSE x \in after : \A y \in after : x <= y
             IN  JsonLoads(SubSeq(output, i + 1, j - 1))

\* The texts of a result and of the surroundings
TextChars == {"a", QUOTE, BACKSLASH, NL, OpenTag(OtherMarker), CloseTag(OtherMarker)}
Texts == UNION {[1..k -> TextChars] : k \in 1..MaxTextLen}
AroundTexts ==
    UNION {[1..k -> {"a", OpenTag(OtherMarker), CloseTag(OtherMarker)}] : k \in 0..1}

InitFrame ==
    /\ fs = [f \in Files |-> NoFile]
    /\ NoCall
    /\ NoEditor
    /\ NoEncoding
    /\ NoStore
    /\ NoLsp
    /\ NoOverride
    /\ NoRead
    /\ NoRest
    /\ editor_result \in {[output |-> t, error |-> NoText] : t \in Texts}
                           \cup {[output |-> NoText, error |-> t] : t \in Texts}
                           \cup [output : {NoText, <<>>}, error : {NoText, <<>>}]
    /\ before_text \in AroundTexts
    /\ after_text \in AroundTexts
    /\ returned = NoText
    /\ extracted = None

beforeFrame ==
    <<fs, callVars, editorVars, encVars, storeVars, lspVars, overrideVars, readVars,
      restVars>>

\* file_editor, lines 61 to 65
FileEditorReturns ==
    /\ returned = NoText
    /\ ~AssertionFails(editor_result)
    /\ returned' = Framed(marker_id,
                          to_dict(editor_result, formatted_output_and_error(editor_result)))
    /\ UNCHANGED <<beforeFrame, editor_result, before_text, after_text, extracted>>

\* file_editor, line 61: the assertion of make_api_tool_result fails and
\* nothing catches the AssertionError
FileEditorRaises ==
    /\ returned = NoText
    /\ AssertionFails(editor_result)
    /\ returned' = AssertionRaised
    /\ UNCHANGED <<beforeFrame, editor_result, before_text, after_text, extracted>>

\* extract_result on the returned string inside the surrounding text
ExtractResult ==
    /\ returned \notin {NoText, AssertionRaised}
    /\ extracted = None
    /\ extracted' = extract_result(before_text \o returned \o after_text)
    /\ UNCHANGED <<beforeFrame, editor_result, before_text, after_text, returned>>

NextFrame ==
    \/ FileEditorReturns
    \/ FileEditorRaises
    \/ ExtractResult

SpecFrame == InitFrame /\ [][NextFrame]_vars

(***************************************************************************)
(* Properties of the envelope, checked under SpecFrame.                    *)
(***************************************************************************)
SerializedResult == to_dict(editor_result, formatted_output_and_error(editor_result))

\* C35: file_editor, given a result of the editor that has no error,
\* returns a framed envelope and raises nothing, also when the output of the
\* result is the empty string or None.
C35_NoErrorNeverRaises ==
    (editor_result.error = NoText /\ returned # NoText) =>
        /\ returned # AssertionRaised
        /\ returned =
              Framed(marker_id,
                     to_dict(editor_result, formatted_output_and_error(editor_result)))

\* The part of C35 that holds: the same for a result whose output is
\* neither None nor the empty string.
C35_OutputNeverRaises ==
    (/\ editor_result.error = NoText
     /\ TruthyText(editor_result.output)
     /\ returned # NoText) =>
        /\ returned # AssertionRaised
        /\ returned =
              Framed(marker_id,
                     to_dict(editor_result, formatted_output_and_error(editor_result)))

\* C21: extract_result applied to the string file_editor returns, inside
\* any surrounding text, gives the serialized result dictionary, whatever
\* characters the output or the error contains.
C21_EnvelopeRoundTrip ==
    extracted # None => extracted = [kind |-> "ok", value |-> SerializedResult]

\* No tag stands in a text.
TagFree(text) == \A k \in 1..Len(text) : ~IsOpenTag(text[k]) /\ ~IsCloseTag(text[k])

\* C21, the part that holds: the same when neither the result nor the text
\* before the returned string contains a tag.
C21_RoundTripWithoutTags ==
    (/\ extracted # None
     /\ TagFree(before_text)
     /\ editor_result.output = NoText \/ TagFree(editor_result.output)
     /\ editor_result.error = NoText \/ TagFree(editor_result.error)) =>
        extracted = [kind |-> "ok", value |-> SerializedResult]

(***************************************************************************)
(* file_ops.py: the accesses of validate_text_file and of the primitives   *)
(* that start with it, one access to the path per step.  The file is seen  *)
(* as what path.exists(), path.stat().st_size and magic.from_file say of   *)
(* it, so that its size can pass MAX_FILE_SIZE.                            *)
(***************************************************************************)
StatSizes == {0, 1, 2, MAX_FILE_SIZE - 1, MAX_FILE_SIZE, MAX_FILE_SIZE + 1}
StatMimes == TextMimes \cup {"application/octet-stream", "inode/x-empty"}

\* The files: none, or a file of some size and type (libmagic names an
\* empty file inode/x-empty and a one-byte file application/octet-stream).
FileStats ==
    {NoStat} \cup
    {[exists |-> TRUE, size |-> n, mime |-> m] : n \in StatSizes,
                                                m \in StatMimes \ {"inode/x-empty"}}
    \cup {[exists |-> TRUE, size |-> 0, mime |-> "inode/x-empty"]}

StatOk(st) ==
    st.exists =>
        /\ st.size = 0 <=> st.mime = "inode/x-empty"
        /\ st.size = 1 => st.mime = "application/octet-stream"

Primitives == {"validate_text_file", "find_in_file", "read_file_range",
               "replace_in_file"}

InitValidate ==
    /\ fs = [f \in Files |-> NoFile]
    /\ NoCall
    /\ NoEditor
    /\ NoEncoding
    /\ NoStore
    /\ NoLsp
    /\ NoOverride
    /\ NoRead
    /\ NoFrame
    /\ NoTags
    /\ NoRace
    /\ NoParse
    /\ NoBrowser
    /\ file_stat \in {st \in FileStats : StatOk(st)}
    /\ io_call = "none"
    /\ io_pc = "idle"
    /\ io_trace = <<>>
    /\ io_result = "none"

beforeValidate ==
    <<fs, callVars, editorVars, encVars, storeVars, lspVars, overrideVars, readVars,
      frameVars, tagVars, raceVars, parseVars, browserVars>>

Raises(e) ==
    /\ io_result' = e
    /\ io_pc' = "done"

\* a primitive is called on the path
CallPrimitive(f) ==
    /\ io_call = "none"
    /\ io_call' = f
    /\ io_pc' = "exists"
    /\ UNCHANGED <<beforeValidate, file_stat, io_trace, io_result>>

\* validate_text_file, lines 36 and 37: path.exists()
PathExists ==
    /\ io_pc = "exists"
    /\ io_trace' = Append(io_trace, "exists")
    /\ IF ~file_stat.exists THEN Raises("FileNotFoundError")
       ELSE io_pc' = "stat" /\ UNCHANGED io_result
    /\ UNCHANGED <<beforeValidate, file_stat, io_call>>

\* validate_text_file, lines 39 to 44: path.stat().st_size
PathStat ==
    /\ io_pc = "stat"
    /\ io_trace' = Append(io_trace, "stat")
    /\ IF TooLarge(file_stat.size) THEN Raises("FileTooLargeError")
       ELSE io_pc' = "magic" /\ UNCHANGED io_result
    /\ UNCHANGED <<beforeValidate, file_stat, io_call>>

\* validate_text_file, lines 46 to 50: magic.from_file; the validation
\* returns, and a primitive goes on to open the file
MagicFromFile ==
    /\ io_pc = "magic"
    /\ io_trace' = Append(io_trace, "magic")
    /\ IF ~IsTextMime(file_stat.mime) THEN Raises("InvalidFileTypeError")
       ELSE IF io_call = "validate_text_file" THEN Raises("ok")
       ELSE io_pc' = "open" /\ UNCHANGED io_result
    /\ UNCHANGED <<beforeValidate, file_stat, io_call>>

\* find_in_file, lines 70 to 96: the file is opened and searched; hits is
\* the number of occurrences (2 stands for several)
OpenForSearch(hits) ==
    /\ io_pc = "open"
    /\ io_call \in {"find_in_file", "replace_in_file"}
    /\ io_trace' = Append(io_trace, "open_rb")
    /\ IF hits = 2 THEN Raises("ValueError")
       ELSE IF io_call = "find_in_file"
       THEN Raises(IF hits = 0 THEN "None" ELSE "match")
       ELSE IF hits = 0 THEN Raises("ValueError")
       ELSE io_pc' = "rewrite" /\ UNCHANGED io_result
    /\ UNCHANGED <<beforeValidate, file_stat, io_call>>

\* read_file_range, lines 125 to 149: the size is read again and the file
\* opened for reading
OpenForRead ==
    /\ io_pc = "open"
    /\ io_call = "read_file_range"
    /\ io_trace' = io_trace \o <<"stat", "open_r">>
    /\ Raises("ok")
    /\ UNCHANGED <<beforeValidate, file_stat, io_call>>

\* replace_in_file, lines 177 to 199: the file is opened for reading, the
\* temporary file for writing, and the file is replaced
Rewrite ==
    /\ io_pc = "rewrite"
    /\ io_trace' = io_trace \o <<"open_r", "open_tmp_w", "os_replace">>
    /\ Raises("ok")
    /\ UNCHANGED <<beforeValidate, file_stat, io_call>>

NextValidate ==
    \/ \E f \in Primitives : CallPrimitive(f)
    \/ PathExists
    \/ PathStat
    \/ MagicFromFile
    \/ \E hits \in 0..2 : OpenForSearch(hits)
    \/ OpenForRead
    \/ Rewrite

SpecValidate == InitValidate /\ [][NextValidate]_vars

(***************************************************************************)
(* Properties of the validation, checked under SpecValidate.               *)
(***************************************************************************)
OneGiB == 2^30
Opening == {"open_rb", "open_r", "open_tmp_w", "os_replace"}
ValidationErrors == {"FileNotFoundError", "FileTooLargeError", "InvalidFileTypeError"}

\* What the validation has to say of a file: the first check that fails, in
\* the order missing, larger than 1 GiB, not text.
Verdict(st) ==
    IF ~st.exists THEN "FileNotFoundError"
    ELSE IF st.size > OneGiB THEN "FileTooLargeError"
    ELSE IF st.mime \notin {"text/plain", "text/x-c"} THEN "InvalidFileTypeError"
    ELSE "ok"

\* C23: a finished call of validate_text_file, find_in_file, read_file_range
\* or replace_in_file has raised FileNotFoundError for a missing path,
\* FileTooLargeError for a file larger than 1 GiB (not for one of exactly
\* 1 GiB), InvalidFileTypeError for a file that is not text, the first of
\* these that applies and no other; and the file is opened, for reading or
\* for writing, only after the three checks have passed.
C23_ValidatedBeforeOpen ==
    /\ io_pc = "done" =>
          IF Verdict(file_stat) # "ok" THEN io_result = Verdict(file_stat)
          ELSE io_result \notin ValidationErrors
    /\ \A i \in DOMAIN io_trace :
          io_trace[i] \in Opening =>
              /\ i > 3
              /\ SubSeq(io_trace, 1, 3) = <<"exists", "stat", "magic">>
              /\ Verdict(file_stat) = "ok"

\* C23 witness: replace_in_file has rewritten a text file of exactly 1 GiB.
C23_Witness ==
    /\ io_call = "replace_in_file"
    /\ io_pc = "done"
    /\ file_stat.size = OneGiB
    /\ io_result = "ok"
    /\ "os_replace" \in {io_trace[i] : i \in DOMAIN io_trace}

(***************************************************************************)
(* tree_sitter/parser.py: TreeSitterParser.get_tags_from_file and its      *)
(* cache, on one Python file that an external writer changes.  Time is     *)
(* counted in ticks; st_mtime is the tick of the last write, and           *)
(* get_modified_time keeps its whole seconds.                              *)
(***************************************************************************)
MaxClock == 3
TicksPerSecond == 2

Codes == {"", "def f(): pass", "def g(): pass"}

\* _get_tags_raw on the text of a Python file: the names it defines
ParseTags(code) ==
    CASE code = "def f(): pass" -> {"f"}
      [] code = "def g(): pass" -> {"g"}
      [] OTHER -> {}

\* get_modified_time: -1 for a missing file, else int(st_mtime)
get_modified_time(file) ==
    IF file = NoTagFile THEN -1 ELSE file.st_mtime \div TicksPerSecond

\* _get_tags_raw: [] for a missing or empty file
get_tags_raw(file) ==
    IF file = NoTagFile THEN {} ELSE ParseTags(file.code)

\* cache_val and cache_val.get('mtime') == mtime
CacheHit(cache_val, mtime) == cache_val # None /\ cache_val.mtime = mtime

InitTags ==
    /\ fs = [f \in Files |-> NoFile]
    /\ NoCall
    /\ NoEditor
    /\ NoEncoding
    /\ NoStore
    /\ NoLsp
    /\ NoOverride
    /\ NoRead
    /\ NoFrame
    /\ NoValidate
    /\ NoRace
    /\ NoParse
    /\ NoBrowser
    /\ clock = 0
    /\ tag_file \in {NoTagFile} \cup {[code |-> c, st_mtime |-> 0] : c \in Codes}
    /\ tags_cache = None
    /\ tags_result = None

beforeTags ==
    <<fs, callVars, editorVars, encVars, storeVars, lspVars, overrideVars, readVars,
      frameVars, validateVars, raceVars, parseVars, browserVars>>

\* time passes
Tick ==
    /\ clock < MaxClock
    /\ clock' = clock + 1
    /\ UNCHANGED <<beforeTags, tag_file, tags_cache, tags_result>>

\* an external writer gives the file another text
ModifyFile(code) ==
    /\ tag_file = NoTagFile \/ tag_file.code # code
    /\ tag_file' = [code |-> code, st_mtime |-> clock]
    /\ tags_result' = None
    /\ UNCHANGED <<beforeTags, clock, tags_cache>>

\* get_tags_from_file(abs_path, rel_path)
GetTagsFromFile ==
    /\ tags_result = None
    /\ LET mtime == get_modified_time(tag_file)
           cache_val == tags_cache
       IN  IF CacheHit(cache_val, mtime)
           THEN /\ tags_result' = [data |-> cache_val.data, parsed |-> FALSE,
                                   cached |-> cache_val, mtime |-> mtime]
                /\ UNCHANGED tags_cache
           ELSE LET data == get_tags_raw(tag_file)
                IN  /\ tags_cache' = [mtime |-> mtime, data |-> data]
                    /\ tags_result' = [data |-> data, parsed |-> TRUE,
                                       cached |-> cache_val, mtime |-> mtime]
    /\ UNCHANGED <<beforeTags, clock, tag_file>>

\* the caller takes the tags
TakeTags ==
    /\ tags_result # None
    /\ tags_result' = None
    /\ UNCHANGED <<beforeTags, clock, tag_file, tags_cache>>

NextTags ==
    \/ Tick
    \/ \E code \in Codes : ModifyFile(code)
    \/ GetTagsFromFile
    \/ TakeTags

SpecTags == InitTags /\ [][NextTags]_vars

(***************************************************************************)
(* Properties of the tag cache, checked under SpecTags.                    *)
(***************************************************************************)
TagsNow == IF tag_file = NoTagFile THEN {} ELSE ParseTags(tag_file.code)

\* C25: a get_tags_from_file call returns the cached tags only when the
\* cached modification time is the current one of the file, and the tags it
\* returns, and the tags the cache holds after it, are those of the file as
\* it is now: a modification since the entry was made is seen.
C25_TagsFollowTheFile ==
    tags_result # None =>
        /\ ~tags_result.parsed =>
               tags_result.cached.mtime = get_modified_time(tag_file)
        /\ tags_result.data = TagsNow
        /\ tags_cache.data = TagsNow

\* The part of C25 that holds: the cached tags are returned only when the
\* cached modification time, in whole seconds, is that of the file; else
\* the file is parsed, its tags returned and stored with that time.
C25_ReparsedWhenSecondsDiffer ==
    tags_result # None =>
        /\ ~tags_result.parsed =>
               /\ tags_result.cached.mtime = get_modified_time(tag_file)
               /\ tags_result.data = tags_result.cached.data
        /\ tags_result.parsed =>
               /\ tags_result.data = TagsNow
               /\ tags_cache = [mtime |-> get_modified_time(tag_file),
                                data |-> TagsNow]

(***************************************************************************)
(* encoding.py: detect_encoding and get_encoding on one path, one access   *)
(* to the file or to the cache per step, while an external writer writes   *)
(* the file.  Every write gives the file a modification time it never had. *)
(***************************************************************************)
MaxWrites == 3

\* A store that asks for the modification time again.
StoredMtime_AtStore(at_entry, at_store) == at_store

\* self._encoding_cache[path_str] = (encoding, current_mtime): the time
\* read when the call was entered
StoredMtime(at_entry, at_store) == at_entry

\* os.path.getmtime(path) if path.exists() else 0
MtimeOf(file) == IF file.exists THEN file.mtime ELSE 0

InitRace ==
    /\ fs = [f \in Files |-> NoFile]
    /\ NoCall
    /\ NoEditor
    /\ NoEncoding
    /\ NoStore
    /\ NoLsp
    /\ NoOverride
    /\ NoRead
    /\ NoFrame
    /\ NoValidate
    /\ NoTags
    /\ NoParse
    /\ NoBrowser
    /\ \/ w_file = Absent /\ writes = 0
       \/ \E v \in Verdicts :
             w_file = [exists |-> TRUE, mtime |-> 1, verdict |-> v] /\ writes = 1
    /\ w_cache = NoEntry
    /\ w_call = "none"
    /\ w_pc = "idle"
    /\ current_mtime = 0
    /\ raw_data = NoVerdict

beforeRace ==
    <<fs, callVars, editorVars, encVars, storeVars, lspVars, overrideVars, readVars,
      frameVars, validateVars, tagVars, parseVars, browserVars>>

Returns ==
    /\ w_pc' = "idle"
    /\ w_call' = "none"

\* the external writer creates or rewrites the file
ExternalWrite(v) ==
    /\ writes < MaxWrites
    /\ writes' = writes + 1
    /\ w_file' = [exists |-> TRUE, mtime |-> writes + 1, verdict |-> v]
    /\ UNCHANGED <<beforeRace, w_cache, w_call, w_pc, current_mtime, raw_data>>

CallManager(f) ==
    /\ w_call = "none"
    /\ w_call' = f
    /\ w_pc' = IF f = "get_encoding" THEN "exists" ELSE "mtime"
    /\ UNCHANGED <<beforeRace, w_file, w_cache, current_mtime, raw_data, writes>>

\* get_encoding, lines 72 to 77: a missing file has the default encoding; a
\* path without entry goes to detect_encoding
GetExists ==
    /\ w_pc = "exists"
    /\ IF ~w_file.exists THEN Returns
       ELSE /\ w_pc' = IF w_cache = NoEntry THEN "mtime" ELSE "compare"
            /\ UNCHANGED w_call
    /\ UNCHANGED <<beforeRace, w_file, w_cache, current_mtime, raw_data, writes>>

\* get_encoding, lines 80 to 87: the cached encoding is returned when the
\* modification times agree, else detect_encoding is called
GetCompare ==
    /\ w_pc = "compare"
    /\ current_mtime' = w_file.mtime
    /\ IF w_file.mtime # w_cache.mtime
       THEN w_pc' = "mtime" /\ UNCHANGED w_call
       ELSE Returns
    /\ UNCHANGED <<beforeRace, w_file, w_cache, raw_data, writes>>

\* detect_encoding, lines 30 to 36: the modification time is read and the
\* cached encoding returned when its time is that
ReadMtime ==
    /\ w_pc = "mtime"
    /\ current_mtime' = MtimeOf(w_file)
    /\ IF w_cache # NoEntry /\ w_cache.mtime = MtimeOf(w_file)
       THEN Returns
       ELSE w_pc' = "read" /\ UNCHANGED w_call
    /\ UNCHANGED <<beforeRace, w_file, w_cache, raw_data, writes>>

\* detect_encoding, lines 42 to 46: the sample is read (FileNotFoundError
\* when the file is missing) and classified
ReadContent ==
    /\ w_pc = "read"
    /\ IF ~w_file.exists THEN Returns /\ UNCHANGED raw_data
       ELSE /\ raw_data' = w_file.verdict
            /\ w_pc' = "store"
            /\ UNCHANGED w_call
    /\ UNCHANGED <<beforeRace, w_file, w_cache, current_mtime, writes>>

\* detect_encoding, lines 49 to 58
StoreCache ==
    /\ w_pc = "store"
    /\ w_cache' = [encoding |-> Accepted_Encoding(raw_data),
                   mtime |-> StoredMtime(current_mtime, MtimeOf(w_file))]
    /\ Returns
    /\ UNCHANGED <<beforeRace, w_file, current_mtime, raw_data, writes>>

NextRace ==
    \/ \E v \in Verdicts : ExternalWrite(v)
    \/ \E f \in {"detect_encoding", "get_encoding"} : CallManager(f)
    \/ GetExists
    \/ GetCompare
    \/ ReadMtime
    \/ ReadContent
    \/ StoreCache

SpecRace == InitRace /\ [][NextRace]_vars

(***************************************************************************)
(* Properties of the manager under a writer, checked under SpecRace.       *)
(***************************************************************************)
\* C29: wherever the writer comes in between the steps of detect_encoding
\* and get_encoding, a cache entry whose modification time is the current
\* one of the file holds the encoding that detection gives for the content
\* the file has now.
C29_TrustedEntryIsCurrent ==
    (w_file.exists /\ w_cache # NoEntry /\ w_cache.mtime = w_file.mtime) =>
        w_cache.encoding = Accepted_Encoding(w_file.verdict)

\* C29 witness: the file was rewritten between the read of its modification
\* time and the store, with a content of another encoding, and the entry
\* stored is not one for the current modification time.
C29_Witness ==
    /\ w_pc = "idle"
    /\ w_cache # NoEntry
    /\ w_file.exists
    /\ w_cache.mtime = current_mtime
    /\ w_cache.mtime # w_file.mtime
    /\ w_cache.encoding # Accepted_Encoding(w_file.verdict)

(***************************************************************************)
(* tree_sitter/parser.py: the end lines of the definitions.                *)
(***************************************************************************)
MaxTags == 3

\* TagKind
TagKind_DEF == "def"
TagKind_REF == "ref"
TagKind_DEF_WITH_BODY == "def_with_body"

\* ParsedTag(rel_path, abs_path, start_line, end_line, node_content, tag_kind)
ParsedTag(rel, abs, first, last, content, kind) ==
    [rel_path |-> rel, abs_path |-> abs, start_line |-> first, end_line |-> last,
     node_content |-> content, tag_kind |-> kind]

\* (tag.abs_path, tag.start_line)
KeyOf(tag) == <<tag.abs_path, tag.start_line>>

\* def_with_body_lookup: the keys of the dictionary, and the value of a
\* key, which is the end_line of the last DEF_WITH_BODY tag of that key.
LookupKeys(tags) ==
    {KeyOf(tags[j]) : j \in {k \in 1..Len(tags) : tags[k].tag_kind = TagKind_DEF_WITH_BODY}}

def_with_body_lookup(tags, key) ==
    LET js == {j \in 1..Len(tags) :
                  tags[j].tag_kind = TagKind_DEF_WITH_BODY /\ KeyOf(tags[j]) = key}
        last == CHOOSE j \in js : \A k \in js : k <= j
    IN  tags[last].end_line

\* A condition that rebuilds the tags of every kind.
IsUpdated_AnyKind(tags, tag) == KeyOf(tag) \in LookupKeys(tags)

\* tag.tag_kind == TagKind.DEF and (tag.abs_path, tag.start_line) in
\* def_with_body_lookup
IsUpdated(tags, tag) == tag.tag_kind = TagKind_DEF /\ KeyOf(tag) \in LookupKeys(tags)

\* _update_end_lines_for_def_using_def_with_body(parsed_tags)
update_end_lines(tags) ==
    [i \in 1..Len(tags) |->
        IF IsUpdated(tags, tags[i])
        THEN ParsedTag(tags[i].rel_path, tags[i].abs_path, tags[i].start_line,
                       def_with_body_lookup(tags, KeyOf(tags[i])),
                       tags[i].node_content, tags[i].tag_kind)
        ELSE tags[i]]

\* The tags of the calls: two files, two start lines, two end lines; the
\* definitions come with either of two contents.
TagKeys == {<<"/r/a.py", 1>>, <<"/r/a.py", 2>>, <<"/r/b.py", 1>>}
TagEndLines == {2, 3}
RelPath(abs_path) == IF abs_path = "/r/a.py" THEN "a.py" ELSE "b.py"
InputTags ==
    {ParsedTag(RelPath(k[1]), k[1], k[2], e, c, kind) :
        k \in TagKeys, e \in TagEndLines, c \in {"x"}, kind \in {TagKind_REF, TagKind_DEF_WITH_BODY}}
    \cup {ParsedTag(RelPath(k[1]), k[1], k[2], e, c, TagKind_DEF) :
             k \in TagKeys, e \in TagEndLines, c \in {"x", "y"}}
TagLists == UNION {[1..n -> InputTags] : n \in 0..MaxTags}

InitParse ==
    /\ fs = [f \in Files |-> NoFile]
    /\ NoCall
    /\ NoEditor
    /\ NoEncoding
    /\ NoStore
    /\ NoLsp
    /\ NoOverride
    /\ NoRead
    /\ NoFrame
    /\ NoValidate
    /\ NoTags
    /\ NoRace
    /\ NoBrowser
    /\ parsed_tags \in TagLists
    /\ result_tags = None

beforeParse ==
    <<fs, callVars, editorVars, encVars, storeVars, lspVars, overrideVars, readVars,
      frameVars, validateVars, tagVars, raceVars, browserVars>>

UpdateEndLines ==
    /\ result_tags = None
    /\ result_tags' = [kind |-> "list", tags |-> update_end_lines(parsed_tags)]
    /\ UNCHANGED <<beforeParse, parsed_tags>>

NextParse ==
    \/ UpdateEndLines

SpecParse == InitParse /\ [][NextParse]_vars

(***************************************************************************)
(* Properties of the end lines, checked under SpecParse.                   *)
(***************************************************************************)
\* The positions of the DEF_WITH_BODY tags that have the (abs_path,
\* start_line) of the tag at position i.
BodiesOf(i) ==
    {j \in 1..Len(parsed_tags) :
        /\ parsed_tags[j].tag_kind = TagKind_DEF_WITH_BODY
        /\ parsed_tags[j].abs_path = parsed_tags[i].abs_path
        /\ parsed_tags[j].start_line = parsed_tags[i].start_line}

\* C36: the list returned has the length and the order of the argument; a
\* REF or DEF_WITH_BODY tag is returned as it was, and so is a DEF tag for
\* whose (abs_path, start_line) there is no DEF_WITH_BODY tag; any other DEF
\* tag differs at most in its end_line, which is the end_line of a
\* DEF_WITH_BODY tag of the same (abs_path, start_line).
C36_OnlyDefEndLinesChange ==
    result_tags # None =>
        /\ Len(result_tags.tags) = Len(parsed_tags)
        /\ \A i \in 1..Len(parsed_tags) :
              IF parsed_tags[i].tag_kind # TagKind_DEF \/ BodiesOf(i) = {}
              THEN result_tags.tags[i] = parsed_tags[i]
              ELSE \E j \in BodiesOf(i) :
                      result_tags.tags[i] =
                          [parsed_tags[i] EXCEPT !.end_line = parsed_tags[j].end_line]

\* C36 witness: a DEF tag has got another end_line from a DEF_WITH_BODY tag
\* while a REF tag of the same (abs_path, start_line) is in the list.
C36_Witness ==
    /\ result_tags # None
    /\ \E i, r \in 1..Len(parsed_tags) :
          /\ parsed_tags[i].tag_kind = TagKind_DEF
          /\ BodiesOf(i) # {}
          /\ result_tags.tags[i].end_line # parsed_tags[i].end_line
          /\ parsed_tags[r].tag_kind = TagKind_REF
          /\ KeyOf(parsed_tags[r]) = KeyOf(parsed_tags[i])

(***************************************************************************)
(* browser/browser.py: SimpleTextBrowser.  A text is a sequence of         *)
(* characters and positions count from 0, as in Python.                    *)
(***************************************************************************)
viewport_size == 2
MaxPageLen == 3

\* U+0130, the capital I with a dot above: str.lower() turns it into two
\* characters, an i and the combining dot U+0307.
DOTTED_I == "I+dot"
COMBINING_DOT == "+dot"

\* str.lower()
LowerChar(ch) ==
    IF ch = "A" THEN <<"a">>
    ELSE IF ch = "B" THEN <<"b">>
    ELSE IF ch = DOTTED_I THEN <<"i", COMBINING_DOT>>
    ELSE <<ch>>

lower(text) == Flatten([i \in 1..Len(text) |-> LowerChar(text[i])])

\* text.find(sub, start): the least position from start on where sub
\* stands, or -1
StrFind(text, sub, start) ==
    LET at == {i \in start..(Len(text) - Len(sub)) :
                  SubSeq(text, i + 1, i + Len(sub)) = sub}
    IN  IF at = {} THEN -1 ELSE CHOOSE i \in at : \A k \in at : i <= k

IntMax(a, b) == IF a >= b THEN a ELSE b
IntMin(a, b) == IF a <= b THEN a ELSE b

\* text[lo:hi] for an hi that is not negative: a negative lo counts from the
\* end of the text.
Slice(text, lo, hi) ==
    LET n == Len(text)
        first == IF lo < 0 THEN IntMax(0, lo + n) ELSE IntMin(lo, n)
        last == IntMin(hi, n)
    IN  IF first >= last THEN <<>> ELSE SubSeq(text, first + 1, last)

\* not self.current_text, not self.search_term: None and "" are false
NotText(t) == ~TruthyText(t)

Message(m) == [kind |-> "message", text |-> m]

\* _get_current_viewport()
get_current_viewport(text, position) ==
    IF NotText(text) THEN Message("No page loaded")
    ELSE [kind |-> "viewport",
          text |-> Slice(text, position,
                         IntMin(Len(text), position + viewport_size))]

\* page_down, lines 63 to 66
page_down_position(text, position) ==
    IntMin(Len(text) - viewport_size, position + viewport_size)

\* find_next, line 86
find_position(pos) == IntMax(0, pos - viewport_size \div 2)

\* The page texts and the terms of the calls.
PageChars == {"a", "A", "b", DOTTED_I}
Pages == UNION {[1..n -> PageChars] : n \in 0..MaxPageLen}
Terms == {<<"a">>, <<"A">>, <<"a", "A">>, <<"b">>, <<>>}

InitBrowser ==
    /\ fs = [f \in Files |-> NoFile]
    /\ NoCall
    /\ NoEditor
    /\ NoEncoding
    /\ NoStore
    /\ NoLsp
    /\ NoOverride
    /\ NoRead
    /\ NoFrame
    /\ NoValidate
    /\ NoTags
    /\ NoRace
    /\ NoParse
    /\ NoBrowser

beforeBrowser ==
    <<fs, callVars, editorVars, encVars, storeVars, lspVars, overrideVars, readVars,
      frameVars, validateVars, tagVars, raceVars, parseVars>>

\* What a call leaves in shown: the method, what it returned, the position
\* find_next found (-1 for none) and the two positions before the call.
Shown(op, out, pos) ==
    [op |-> op, ret |-> out, pos |-> pos, position_before |-> current_position,
     search_before |-> search_position]

\* visit(url), the request giving a page of this text
Visit(page) ==
    /\ current_text' = page
    /\ current_position' = 0
    /\ search_position' = 0
    /\ search_term' = NoText
    /\ visited' = <<>>
    /\ shown' = Shown("visit", get_current_viewport(page, 0), -1)
    /\ UNCHANGED beforeBrowser

\* visit(url), the request raising
VisitFails ==
    /\ shown' = Shown("visit", Message("Error"), -1)
    /\ shown' # shown
    /\ UNCHANGED <<beforeBrowser, current_text, current_position, search_position,
                   search_term, visited>>

PageUp ==
    /\ IF NotText(current_text)
       THEN /\ shown' = Shown("page_up", Message("No page loaded"), -1)
            /\ UNCHANGED current_position
       ELSE /\ current_position' = IntMax(0, current_position - viewport_size)
            /\ shown' = Shown("page_up",
                              get_current_viewport(current_text, current_position'), -1)
    /\ UNCHANGED <<beforeBrowser, current_text, search_position, search_term, visited>>

PageDown ==
    /\ IF NotText(current_text)
       THEN /\ shown' = Shown("page_down", Message("No page loaded"), -1)
            /\ UNCHANGED current_position
       ELSE /\ current_position' = page_down_position(current_text, current_position)
            /\ shown' = Shown("page_down",
                              get_current_viewport(current_text, current_position'), -1)
    /\ UNCHANGED <<beforeBrowser, current_text, search_position, search_term, visited>>

\* find_next() with this search term and this search position, called as
\* op: what it does to the two positions and what it returns
find_next(op, term, from, seen) ==
    IF NotText(current_text) \/ NotText(term)
    THEN /\ shown' = Shown(op, Message("No search term set"), -1)
         /\ search_position' = from
         /\ visited' = seen
         /\ UNCHANGED current_position
    ELSE LET pos == StrFind(lower(current_text), term, from)
         IN  IF pos = -1
             THEN /\ shown' = Shown(op, Message("Term not found"), -1)
                  /\ search_position' = from
                  /\ visited' = seen
                  /\ UNCHANGED current_position
             ELSE /\ search_position' = pos + 1
                  /\ current_position' = find_position(pos)
                  /\ visited' = Append(seen, pos)
                  /\ shown' = Shown(op, get_current_viewport(current_text,
                                                             current_position'), pos)

FindTerm(term) ==
    /\ IF NotText(current_text)
       THEN /\ shown' = Shown("find", Message("No page loaded"), -1)
            /\ UNCHANGED <<current_position, search_position, search_term, visited>>
       ELSE /\ search_term' = lower(term)
            /\ find_next("find", lower(term), 0, <<>>)
    /\ UNCHANGED <<beforeBrowser, current_text>>

FindNext ==
    /\ find_next("find_next", search_term, search_position, visited)
    /\ UNCHANGED <<beforeBrowser, current_text, search_term>>

NextBrowser ==
    \/ \E page \in Pages : Visit(page)
    \/ VisitFails
    \/ PageUp
    \/ PageDown
    \/ \E term \in Terms : FindTerm(term)
    \/ FindNext

SpecBrowser == InitBrowser /\ [][NextBrowser]_vars

(***************************************************************************)
(* Properties of the browser, checked under SpecBrowser.                   *)
(***************************************************************************)
Loaded == ~NotText(current_text)

\* The viewport as the claim describes it: the characters of the page from
\* current_position on, viewport_size of them at most.
ViewportAtPosition ==
    SubSeq(current_text, current_position + 1,
           IntMin(Len(current_text), current_position + viewport_size))

\* C37: on a loaded page, after a visit, page_up, page_down, find or
\* find_next, current_position is between 0 and the length of the text, and
\* a viewport the call returned is the part of the text that starts at
\* current_position and has at most viewport_size characters.
C37_PositionInsideThePage ==
    (Loaded /\ shown.op # "none") =>
        /\ 0 <= current_position
        /\ current_position <= Len(current_text)
        /\ shown.ret.kind = "viewport" => shown.ret.text = ViewportAtPosition

\* No character of the page changes its length when it is lowered.
LowerKeepsLength == \A i \in 1..Len(current_text) : Len(LowerChar(current_text[i])) = 1

\* The part of C37 that holds: the same on a page that is at least
\* viewport_size long and has no character that lower() makes longer.
C37_InsideALongPlainPage ==
    (/\ Loaded
     /\ shown.op # "none"
     /\ Len(current_text) >= viewport_size
     /\ LowerKeepsLength) =>
        /\ 0 <= current_position
        /\ current_position <= Len(current_text)
        /\ shown.ret.kind = "viewport" => shown.ret.text = ViewportAtPosition

\* The positions of the page text where the search term stands, whatever
\* the case of the letters: the part of the text that starts there and has
\* some length is the term when both are lowered.
TermPositions ==
    {i \in 0..(Len(current_text) - 1) :
        \E n \in 1..(Len(current_text) - i) :
            lower(SubSeq(current_text, i + 1, i + n)) = search_term}

\* The k-th of them, from the start of the text.
KthOccurrence(k) ==
    CHOOSE i \in TermPositions : Cardinality({j \in TermPositions : j < i}) = k - 1

\* A find or find_next on a loaded page with a search term has ended.
SearchEnded ==
    /\ Loaded
    /\ shown.op \in {"find", "find_next"}
    /\ TruthyText(search_term)

\* What C38 says of such a call: the k-th call that finds the term since
\* the find has found its k-th occurrence in the text and has put the
\* viewport there, and a call that finds nothing comes when every
\* occurrence has been found and leaves the two positions as they were.
VisitsInOrder ==
    IF shown.pos # -1
    THEN /\ Len(visited) <= Cardinality(TermPositions)
         /\ shown.pos = KthOccurrence(Len(visited))
         /\ \A k \in 1..(Len(visited) - 1) : visited[k] < visited[k + 1]
         /\ current_position = find_position(KthOccurrence(Len(visited)))
         /\ search_position = shown.pos + 1
    ELSE /\ shown.ret = Message("Term not found")
         /\ Len(visited) = Cardinality(TermPositions)
         /\ current_position = shown.position_before
         /\ shown.op = "find_next" => search_position = shown.search_before

\* C38: find(term) on a loaded page moves to the first occurrence of the
\* term, in whatever case, each find_next after it to the next one, in
\* increasing order and each once; when all have been visited find_next
\* returns 'Term not found' and changes neither position.
C38_OccurrencesVisitedInOrder == SearchEnded => VisitsInOrder

\* The part of C38 that holds: the same on a page that has no character
\* that lower() makes longer.
C38_PlainPageVisitedInOrder == (SearchEnded /\ LowerKeepsLength) => VisitsInOrder
====
